---- MODULE Spec2Model ----
(***************************************************************************)
(* HTTP-Proxy-Server: the session registry, the two session gateways and   *)
(* the route handlers that use them.                                       *)
(*                                                                         *)
(*   "A": main.py = SessionMiddleware + routes/api.py + the singleton      *)
(*        services/sesion_manager.py SessionManager                        *)
(*   "B": server/main.py = SessionHandlerMiddleware (own session map) +    *)
(*        server/routes/api.py                                             *)
(*                                                                         *)
(* Time is a discrete clock; a session has expired when                    *)
(* now - last_activity > SessionTimeout, as in the source.                 *)
(*                                                                         *)
(*   SpecStore    the SessionManager, call by call                         *)
(*   SpecB        requests to B: subscribe, unsubscribe, a protected route *)
(*   SpecHeaders  requests to A: subscribe, set-headers, get-headers,      *)
(*                unsubscribe                                              *)
(*   SpecForward  requests to A: subscribe, forward, download, get-cookies *)
(*                                                                         *)
(*   SpecHealth   the health checks of A and B                             *)
(*   SpecGate     requests to A on public and protected paths;             *)
(*                SpecGateLive adds that the clock goes on                 *)
(*   SpecSweep    cleanupExpiredSessions step by step, beside a caller     *)
(*                that touches                                             *)
(*   SpecTimeouts forward and download whose calls time out, the clock     *)
(*                running                                                  *)
(*   SpecSingleton the constructions of SessionManager                     *)
(*   SpecFlight   a request's gateway and its route as separate steps,     *)
(*                other requests served in between                         *)
(*   SpecScan     the gateway's sweep turn by turn on the event loop,      *)
(*                beside subscribe and unsubscribe on worker threads       *)
(*                                                                         *)
(* In SpecB, SpecHeaders and SpecForward a request is served in one step,  *)
(* gateway and route handler together: requests do not overlap.            *)
(***************************************************************************)
EXTENDS Integers, Sequences, FiniteSets, TLC

\* ---------------------------------------------------------------- bounds
\* sessions created over a run of SpecStore or SpecB
MaxIds == 2
\* the clock stops here
MaxTime == 2
\* session_timeout, in ticks of the clock
SessionTimeout == 1
\* request_count stops here: SpecStore
MaxTouch == 1
\* request_count stops here: SpecB and SpecForward
MaxCount == 2
\* sessions created over a run of SpecHeaders or SpecForward
MaxSubs == 1
\* request_count stops here: SpecHeaders
MaxCalls == 3

\* -------------------------------------------------------------- constants
\* the value of an absent header / cookie / attribute (Python None)
Absent == "<none>"
\* None where a session record is expected
NotFound == [found |-> FALSE]
\* a session id a client made up; uuid4 never yields it
Forged == "not-a-uuid"
\* the values uuid.uuid4() yields, in the order it yields them
UuidPool == <<"uuid-1", "uuid-2", "uuid-3", "uuid-4", "uuid-5", "uuid-6">>
Ids == {UuidPool[i] : i \in 1..MaxIds}
\* who calls createSession: (client_ip, user_agent)
Clients == {<<"10.0.0.1", "curl">>}
\* who sends requests: (request.client.host, User-Agent header or Absent)
HttpClients == {<<"10.0.0.1", Absent>>}

VARIABLES
    now,         \* datetime.now()
    nextId,      \* index in UuidPool of the next value of uuid.uuid4()
    sessions,    \* A: SessionManager._sessions
    closeCount,  \* A: number of close() calls on each record's requests.Session
    evicted,     \* history: ids isSessionValid found expired and removed
    ret,         \* the last SessionManager call that returned, and the value
                 \* it returned (Absent: None)
    mwSessions,  \* B: SessionHandlerMiddleware.sessions
    resp,        \* the last request served and the response sent
    setLog,      \* history: A session id |-> the payload of its last
                 \* set-headers call that answered 200
    session,     \* B: the module's one requests.Session (server/routes/api.py)
    threads,     \* A: what each thread is doing inside the SessionManager
    admissions,  \* history: A session id |-> the requests bearing it that
                 \* the gateway has validated and handed on; live records only
    manager,     \* A: the class attributes SessionManager._instance and
                 \* SessionManager._session_timeout
    loop         \* A: where the event loop is inside SessionMiddleware.dispatch

vars == <<now, nextId, sessions, closeCount, evicted, ret, mwSessions, resp,
          setLog, session, threads, admissions, manager, loop>>
storeVars == <<sessions, closeCount, evicted, ret>>
procVars == <<session, threads>>

\* the workers of the thread pool, which run the routes (def, not async def)
Threads == {"w1", "w2"}
\* a thread outside the SessionManager
Idle == [pc |-> "idle", id |-> Absent, expired |-> <<>>, current_time |-> 0,
         path |-> <<>>]

\* the event loop outside SessionMiddleware.dispatch
LoopIdle == [pc |-> "idle", id |-> Absent, size |-> 0, pos |-> 1,
             expired |-> <<>>, current_time |-> 0]

\* the ids uuid4 has yielded so far: the ids of the sessions created
issued == {UuidPool[i] : i \in 1..(nextId - 1)}

\* the ids whose record deleteSession has closed and removed
deleted == {id \in DOMAIN closeCount : closeCount[id] > 0}

\* ------------------------------------------------------------------ strings
\* a string the code inspects character by character (a header name, an
\* HTTP method, a URL) is the sequence of its characters
Lowers == <<"a","b","c","d","e","f","g","h","i","j","k","l","m",
            "n","o","p","q","r","s","t","u","v","w","x","y","z">>
Uppers == <<"A","B","C","D","E","F","G","H","I","J","K","L","M",
            "N","O","P","Q","R","S","T","U","V","W","X","Y","Z">>

\* the letter of the other case, letter by letter
to_lower == [c \in {Uppers[k] : k \in 1..26} |->
                Lowers[CHOOSE k \in 1..26 : Uppers[k] = c]]
to_upper == [c \in {Lowers[k] : k \in 1..26} |->
                Uppers[CHOOSE k \in 1..26 : Lowers[k] = c]]

\* str.lower() and str.upper()
lower(s) ==
    [i \in 1..Len(s) |-> IF s[i] \in DOMAIN to_lower THEN to_lower[s[i]] ELSE s[i]]

upper(s) ==
    [i \in 1..Len(s) |-> IF s[i] \in DOMAIN to_upper THEN to_upper[s[i]] ELSE s[i]]

\* str.startswith(prefix)
startswith(s, prefix) ==
    /\ Len(s) >= Len(prefix)
    /\ SubSeq(s, 1, Len(prefix)) = prefix

\* Python truthiness of an optional string: None and "" are falsy
Falsy(v) == v \in {Absent, ""}

Restrict(f, D) == [x \in D |-> f[x]]

\* ------------------------------------------------ requests.Session objects
\* session.headers is a CaseInsensitiveDict:
\* lower-cased name |-> <<name as last set, value>>
CID_set(h, key, value) ==
    [k \in DOMAIN h \cup {lower(key)} |->
        IF k = lower(key) THEN <<key, value>> ELSE h[k]]

\* update(mapping): one __setitem__ per item, in the mapping's order; a
\* mapping is given as the sequence of its <<name, value>> items
RECURSIVE CID_update(_, _)
CID_update(h, items) ==
    IF items = <<>> THEN h
    ELSE CID_update(CID_set(h, Head(items)[1], Head(items)[2]), Tail(items))

\* dict(session.headers): name as last set |-> value
CID_dict(h) ==
    [n \in {h[k][1] : k \in DOMAIN h} |->
        h[CHOOSE k \in DOMAIN h : h[k][1] = n][2]]

h_UserAgent == <<"U","s","e","r","-","A","g","e","n","t">>
h_AcceptEncoding == <<"A","c","c","e","p","t","-","E","n","c","o","d","i","n","g">>
h_Accept == <<"A","c","c","e","p","t">>
h_Connection == <<"C","o","n","n","e","c","t","i","o","n">>

\* requests.utils.default_headers(): what requests.Session() starts with
default_headers ==
    CID_update(<<>>, << <<h_UserAgent, "python-requests">>,
                       <<h_AcceptEncoding, "gzip, deflate">>,
                       <<h_Accept, "*/*">>,
                       <<h_Connection, "keep-alive">> >>)

\* session.cookies is a cookie jar: the set of its cookies, at most one per
\* (domain, path, name)
SameKey(c, d) == c.domain = d.domain /\ c.path = d.path /\ c.name = d.name

\* a set_cookie that files every cookie it is given
set_cookie_dup(jar, c) == jar \cup {c}

\* CookieJar.set_cookie: self._cookies[domain][path][name] = cookie
set_cookie(jar, c) == {x \in jar : ~SameKey(x, c)} \cup {c}

\* one set_cookie per cookie of cs
RECURSIVE jar_update(_, _)
jar_update(jar, cs) ==
    IF cs = {} THEN jar
    ELSE LET c == CHOOSE c \in cs : TRUE
         IN jar_update(set_cookie(jar, c), cs \ {c})

\* the store of session records: a dict id |-> record plus the close()
\* calls made so far
Store(s, c) == [sessions |-> s, closes |-> c]

\* ------------------------------------------- services/sesion_manager.py
\* requests.Session()
NewInstance == [headers |-> default_headers, cookies |-> {}]

\* a createSession that leaves last_activity at the epoch
createSession_stale(st, session_id, client_ip, user_agent, t) ==
    LET session_data == [session_id |-> session_id,
                         client_ip |-> client_ip,
                         user_agent |-> user_agent,
                         created_at |-> t,
                         last_activity |-> 0,
                         request_count |-> 0,
                         instance |-> NewInstance]
    IN [st EXCEPT !.sessions =
           [x \in DOMAIN st.sessions \cup {session_id} |->
               IF x = session_id THEN session_data ELSE st.sessions[x]]]

createSession(st, session_id, client_ip, user_agent, t) ==
    LET session_data == [session_id |-> session_id,
                         client_ip |-> client_ip,
                         user_agent |-> user_agent,
                         created_at |-> t,
                         last_activity |-> t,
                         request_count |-> 0,
                         instance |-> NewInstance]
    IN [st EXCEPT !.sessions =
           [x \in DOMAIN st.sessions \cup {session_id} |->
               IF x = session_id THEN session_data ELSE st.sessions[x]]]

\* dict.get: the record, or None
getSession(st, session_id) ==
    IF session_id \in DOMAIN st.sessions THEN st.sessions[session_id] ELSE NotFound

sessionExists(st, session_id) == session_id \in DOMAIN st.sessions

\* a deleteSession that empties the dictionary (self._sessions.clear())
deleteSession_clear(st, session_id) ==
    IF sessionExists(st, session_id)
    THEN [sessions |-> <<>>,
          closes |-> [st.closes EXCEPT ![session_id] = @ + 1]]
    ELSE st

deleteSession(st, session_id) ==
    IF sessionExists(st, session_id)
    THEN [sessions |-> Restrict(st.sessions, DOMAIN st.sessions \ {session_id}),
          closes |-> [st.closes EXCEPT ![session_id] = @ + 1]]
    ELSE st

\* self._session_timeout is the class attribute: no instance assigns it
Expired(rec, t) == t - rec.last_activity > manager._session_timeout

\* an isSessionValid that reports expiry and leaves the record in place
isSessionValid_keep(st, session_id, t) ==
    IF ~sessionExists(st, session_id)
    THEN [ok |-> FALSE, st |-> st]
    ELSE IF Expired(st.sessions[session_id], t)
         THEN [ok |-> FALSE, st |-> st]
         ELSE [ok |-> TRUE, st |-> st]

\* returns the answer and the store the call leaves behind
isSessionValid(st, session_id, t) ==
    IF ~sessionExists(st, session_id)
    THEN [ok |-> FALSE, st |-> st]
    ELSE IF Expired(st.sessions[session_id], t)
         THEN [ok |-> FALSE, st |-> deleteSession(st, session_id)]
         ELSE [ok |-> TRUE, st |-> st]

\* an updateLastActivity without the sessionExists guard (dict.setdefault)
updateLastActivity_upsert(st, session_id, t) ==
    LET old == IF sessionExists(st, session_id)
               THEN st.sessions[session_id]
               ELSE [session_id |-> session_id, client_ip |-> Absent,
                     user_agent |-> Absent, created_at |-> t,
                     last_activity |-> t, request_count |-> 0,
                     instance |-> NewInstance]
    IN [st EXCEPT !.sessions =
           [x \in DOMAIN st.sessions \cup {session_id} |->
               IF x = session_id
               THEN [old EXCEPT !.last_activity = t, !.request_count = @ + 1]
               ELSE st.sessions[x]]]

\* an updateLastActivity that stamps the record and does not count the request
updateLastActivity_stamp(st, session_id, t) ==
    IF sessionExists(st, session_id)
    THEN [st EXCEPT !.sessions[session_id].last_activity = t]
    ELSE st

\* an updateLastActivity that stamps created_at as well
updateLastActivity_recreate(st, session_id, t) ==
    IF sessionExists(st, session_id)
    THEN [st EXCEPT !.sessions[session_id].created_at = t,
                    !.sessions[session_id].last_activity = t,
                    !.sessions[session_id].request_count = @ + 1]
    ELSE st

updateLastActivity(st, session_id, t) ==
    IF sessionExists(st, session_id)
    THEN [st EXCEPT !.sessions[session_id].last_activity = t,
                    !.sessions[session_id].request_count = @ + 1]
    ELSE st

RECURSIVE DeleteAll(_, _)
DeleteAll(st, ids) ==
    IF ids = {} THEN st
    ELSE LET id == CHOOSE x \in ids : TRUE
         IN DeleteAll(deleteSession(st, id), ids \ {id})

\* a cleanupExpiredSessions whose test is >= where the source has >
cleanupExpiredSessions_ge(st, t) ==
    LET expired_sessions ==
            {id \in DOMAIN st.sessions :
                t - st.sessions[id].last_activity >= SessionTimeout}
    IN DeleteAll(st, expired_sessions)

cleanupExpiredSessions(st, t) ==
    LET expired_sessions ==
            {id \in DOMAIN st.sessions : Expired(st.sessions[id], t)}
    IN DeleteAll(st, expired_sessions)

\* ------------------------------------------------------------- responses
\* a path is the sequence of its segments: "/unsubscribe/x" is
\* <<"unsubscribe", "x">> and "/" is <<>>.  A response is kept with the
\* request it answers: the session_id cookie and X-Session-Id header it
\* carried, the session it was served under, whether the id it carried named
\* a live record on arrival (live), whether the route handler ran (ran), the
\* body it posted (payload), the session's requests.Session on arrival
\* (before), the outbound call made for it (call), what session.request did
\* (outcome), the JSON object of an error response (content) and the
\* headers the gateway set on the response (headers); raised is the
\* exception that came out of call_next, if one did
NoOutcome == [kind |-> Absent, cookies |-> {}]
NoContent == [key \in {} |-> Absent]
NoCall == [method |-> <<>>, url |-> <<>>, headers |-> <<>>, jar |-> {}]
NoInstance == [headers |-> <<>>, cookies |-> {}]
NoResp == [app |-> Absent, path |-> <<>>, cookie |-> Absent, sid |-> Absent,
           session |-> Absent, live |-> FALSE, status |-> 0, ran |-> FALSE,
           payload |-> Absent, body |-> Absent, call |-> NoCall,
           before |-> NoInstance, outcome |-> NoOutcome,
           content |-> NoContent, headers |-> NoContent,
           raised |-> Absent]

Live(S, id, t) == id \in DOMAIN S /\ ~Expired(S[id], t)

\* request_count is kept within a bound
CountOk(S, id, max) == id \in DOMAIN S => S[id].request_count < max

\* ------------------------------------------------------------ exceptions
\* what session.request raises: the classes of requests.exceptions each kind
\* is an instance of
mro == [Timeout |-> {"Timeout", "RequestException", "Exception"},
        ConnectTimeout |-> {"ConnectTimeout", "ConnectionError", "Timeout",
                            "RequestException", "Exception"},
        ConnectionError |-> {"ConnectionError", "RequestException", "Exception"},
        HTTPError |-> {"HTTPError", "RequestException", "Exception"},
        TooManyRedirects |-> {"TooManyRedirects", "RequestException", "Exception"}]

ExceptionKinds == DOMAIN mro

\* str(type(e)), between the quotes
type_str ==
    [Timeout |-> <<"r","e","q","u","e","s","t","s",".","e","x","c","e","p","t","i","o","n","s",".","T","i","m","e","o","u","t">>,
     ConnectTimeout |-> <<"r","e","q","u","e","s","t","s",".","e","x","c","e","p","t","i","o","n","s",".","C","o","n","n","e","c","t","T","i","m","e","o","u","t">>,
     ConnectionError |-> <<"r","e","q","u","e","s","t","s",".","e","x","c","e","p","t","i","o","n","s",".","C","o","n","n","e","c","t","i","o","n","E","r","r","o","r">>,
     HTTPError |-> <<"r","e","q","u","e","s","t","s",".","e","x","c","e","p","t","i","o","n","s",".","H","T","T","P","E","r","r","o","r">>,
     TooManyRedirects |-> <<"r","e","q","u","e","s","t","s",".","e","x","c","e","p","t","i","o","n","s",".","T","o","o","M","a","n","y","R","e","d","i","r","e","c","t","s">>]

\* sub in s
contains(s, sub) ==
    \E i \in 0..(Len(s) - Len(sub)) :
        \A j \in 1..Len(sub) : s[i + j] = sub[j]

\* the except clause that catches an exception of this kind: the first, in
\* the order written, whose class the exception is an instance of
caught(handlers, kind) ==
    handlers[CHOOSE i \in 1..Len(handlers) :
                /\ handlers[i] \in mro[kind]
                /\ \A j \in 1..(i - 1) : handlers[j] \notin mro[kind]]

\* --------------------------------------------------------------- SpecStore
\* the SessionManager driven directly, call by call
NoRet == [op |-> "none", id |-> Absent, val |-> Absent]

Commit(st) ==
    \E done \in {st} :
        /\ sessions' = done.sessions
        /\ closeCount' = done.closes

\* the class SessionManager as its class statement leaves it
session_timeout_default == 600

Unconstructed == [_instance |-> Absent, _session_timeout |-> session_timeout_default]

\* a __new__ that assigns the timeout at every construction
__new___assign(cls, session_timeout) ==
    [_instance |-> IF cls._instance = Absent THEN "SessionManager-1"
                   ELSE cls._instance,
     _session_timeout |-> session_timeout]

\* SessionManager(session_timeout): the class attributes after the call; the
\* instance returned is their _instance
__new__(cls, session_timeout) ==
    IF cls._instance = Absent
    THEN [_instance |-> "SessionManager-1", _session_timeout |-> session_timeout]
    ELSE cls

\* the store before anything has been constructed or called
ClassInit ==
    /\ now = 0
    /\ nextId = 1
    /\ sessions = <<>>
    /\ closeCount = [id \in Ids \cup {Forged} |-> 0]
    /\ evicted = {}
    /\ ret = NoRet
    /\ mwSessions = <<>>
    /\ resp = NoResp
    /\ setLog = <<>>
    /\ session = NewInstance
    /\ threads = [t \in Threads |-> Idle]
    /\ admissions = <<>>
    /\ loop = LoopIdle

\* the state when main.py has been imported: routes/api.py has constructed
\* the SessionManager, with SESSION_TIMEOUT; the SessionManager() of each
\* request in SessionMiddleware.dispatch leaves the class attributes as
\* they are
StoreInit ==
    /\ ClassInit
    /\ manager = __new__(Unconstructed, SessionTimeout)

CallIds == issued \cup {Forged}

Tick ==
    /\ now < MaxTime
    /\ now' = now + 1
    /\ ret' = NoRet
    /\ UNCHANGED <<manager, loop, admissions, procVars, nextId, sessions, closeCount, evicted, mwSessions, resp, setLog>>

CallCreate(client_ip, user_agent) ==
    /\ nextId <= MaxIds
    /\ LET id == UuidPool[nextId]
       IN /\ Commit(createSession(Store(sessions, closeCount), id,
                                  client_ip, user_agent, now))
          /\ ret' = [op |-> "create", id |-> id, val |-> id]
    /\ nextId' = nextId + 1
    /\ UNCHANGED <<manager, loop, admissions, procVars, now, evicted, mwSessions, resp, setLog>>

CallGet(id) ==
    /\ ret' = [op |-> "get", id |-> id,
               val |-> getSession(Store(sessions, closeCount), id)]
    /\ UNCHANGED <<manager, loop, admissions, procVars, now, nextId, sessions, closeCount, evicted, mwSessions, resp, setLog>>

CallIsValid(id) ==
    /\ \E res \in {isSessionValid(Store(sessions, closeCount), id, now)} :
          /\ Commit(res.st)
          /\ ret' = [op |-> "isValid", id |-> id, val |-> res.ok]
          /\ evicted' = IF ~res.ok /\ id \in DOMAIN sessions
                        THEN evicted \cup {id} ELSE evicted
    /\ UNCHANGED <<manager, loop, admissions, procVars, now, nextId, mwSessions, resp, setLog>>

CallTouch(id) ==
    /\ id \in DOMAIN sessions => sessions[id].request_count < MaxTouch
    /\ Commit(updateLastActivity(Store(sessions, closeCount), id, now))
    /\ ret' = NoRet
    /\ UNCHANGED <<manager, loop, admissions, procVars, now, nextId, evicted, mwSessions, resp, setLog>>

CallDelete(id) ==
    /\ Commit(deleteSession(Store(sessions, closeCount), id))
    /\ ret' = [op |-> "delete", id |-> id, val |-> Absent]
    /\ UNCHANGED <<manager, loop, admissions, procVars, now, nextId, evicted, mwSessions, resp, setLog>>

CallSweep ==
    /\ Commit(cleanupExpiredSessions(Store(sessions, closeCount), now))
    /\ ret' = [op |-> "sweep", id |-> Absent, val |-> Absent]
    /\ UNCHANGED <<manager, loop, admissions, procVars, now, nextId, evicted, mwSessions, resp, setLog>>

StoreNext ==
    \/ Tick
    \/ \E c \in Clients : CallCreate(c[1], c[2])
    \/ \E id \in CallIds : CallGet(id)
    \/ \E id \in CallIds : CallIsValid(id)
    \/ \E id \in CallIds : CallTouch(id)
    \/ \E id \in CallIds : CallDelete(id)
    \/ CallSweep

SpecStore == StoreInit /\ [][StoreNext]_vars

\* -------------------------------------- middleware/session_middleware.py
URI_EXCEPTIONS == {<<"docs">>, <<"openapi.json">>, <<"redoc">>,
                   <<"health-check">>, <<"favicon.ico">>, <<"subscribe">>}

\* dispatch, up to call_next: admit says whether call_next is reached
SessionMiddleware_dispatch(st, path, session_id, t) ==
    IF path \in URI_EXCEPTIONS
    THEN [admit |-> TRUE, status |-> 0, st |-> st, state_sid |-> Absent]
    ELSE IF Falsy(session_id)
    THEN [admit |-> FALSE, status |-> 401, st |-> st, state_sid |-> Absent]
    ELSE LET swept == cleanupExpiredSessions(st, t)
             valid == isSessionValid(swept, session_id, t)
         IN IF ~valid.ok
            THEN [admit |-> FALSE, status |-> 401, st |-> valid.st,
                  state_sid |-> Absent]
            ELSE [admit |-> TRUE, status |-> 0,
                  st |-> updateLastActivity(valid.st, session_id, t),
                  state_sid |-> session_id]

\* history: g is what dispatch came to and S the records the request leaves;
\* a request is counted under its id when dispatch validated the id and
\* reached call_next
Admit(g, S) ==
    LET counted == IF g.admit /\ g.state_sid \in DOMAIN admissions
                   THEN [admissions EXCEPT ![g.state_sid] = @ + 1]
                   ELSE admissions
    IN Restrict(counted, DOMAIN counted \cap DOMAIN S)

\* the request as the gateway leaves it when it answers 401 itself
A_Rejected(path, sid, payload) ==
    [NoResp EXCEPT !.app = "A", !.path = path, !.sid = sid,
                   !.live = Live(sessions, sid, now),
                   !.status = 401, !.payload = payload,
                   !.content = [message |-> "session"]]

\* the request as the gateway hands it to the route
A_Admitted(path, sid, payload) ==
    [NoResp EXCEPT !.app = "A", !.path = path, !.sid = sid, !.session = sid,
                   !.live = Live(sessions, sid, now), !.payload = payload,
                   !.before = sessions[sid].instance]

\* ---------------------------------------- server/request/request_payload.py
allowed_methods == {<<"G","E","T">>, <<"P","O","S","T">>, <<"P","U","T">>,
                    <<"D","E","L","E","T","E">>, <<"P","A","T","C","H">>,
                    <<"H","E","A","D">>, <<"O","P","T","I","O","N","S">>}

\* a validate_method that hands the method on as it was written
validate_method_asis(v) == [ok |-> upper(v) \in allowed_methods, v |-> v]

\* ok: no ValueError; v: the value returned
validate_method(v) == [ok |-> upper(v) \in allowed_methods, v |-> upper(v)]

validate_url(v) ==
    \/ startswith(v, <<"h","t","t","p",":","/","/">>)
    \/ startswith(v, <<"h","t","t","p","s",":","/","/">>)

\* timeout: int = Field(default=30, ge=1, le=300)
timeout_default == 30
timeout_ge == 1
timeout_le == 300
validate_timeout(v) == timeout_ge <= v /\ v <= timeout_le

required_keys == {"value", "domain", "path"}

\* cookies: name |-> the cookie's dict (<<>>: no cookies given)
validate_cookies(v) == \A key \in DOMAIN v : DOMAIN v[key] = required_keys

\* HTTPRequestPayload(**body): valid, and the payload the route receives
HTTPRequestPayload(body) ==
    [valid |-> /\ validate_method(body.method).ok
               /\ validate_url(body.url)
               /\ validate_cookies(body.cookies)
               /\ validate_timeout(body.timeout),
     payload |-> [body EXCEPT !.method = validate_method(body.method).v]]

\* ----------------------------------------------------------- routes/api.py
\* a set_headers that adds to the headers already there
set_headers_union(instance, payload) ==
    [instance EXCEPT !.headers = CID_update(@, payload)]

\* session.headers.clear(); session.headers.update(payload)
set_headers(instance, payload) ==
    [instance EXCEPT !.headers = CID_update(<<>>, payload)]

\* a forward that leaves the cookies of the response out of the jar
store_response_cookies_drop(jar, response_cookies) == jar

\* if response.cookies: session.cookies.update(response.cookies)
store_response_cookies(jar, response_cookies) ==
    IF response_cookies # {} THEN jar_update(jar, response_cookies) ELSE jar

\* the cookies session.cookies.set is called with, one per item of
\* payload.cookies
PayloadCookies(cookies) ==
    {[name |-> name, value |-> cookies[name].value,
      domain |-> cookies[name].domain, path |-> cookies[name].path] :
        name \in DOMAIN cookies}

\* a forward whose call keeps the session's value of a header the body
\* gives too
PrepareCall_stored_wins(instance, payload) ==
    LET kept == {lower(payload.headers[i][1]) : i \in DOMAIN payload.headers}
                    \ DOMAIN instance.headers
        extra == CID_update(<<>>, payload.headers)
        request_headers == [k \in DOMAIN instance.headers \cup kept |->
                               IF k \in DOMAIN instance.headers
                               THEN instance.headers[k] ELSE extra[k]]
        cookies == jar_update(instance.cookies, PayloadCookies(payload.cookies))
    IN [method |-> payload.method, url |-> payload.url,
        headers |-> CID_dict(request_headers), jar |-> cookies]

\* a forward that makes its call with a copy of the session's jar and
\* leaves the cookies of the body out of both
PrepareCall_copy(instance, payload) ==
    LET request_headers == CID_update(instance.headers, payload.headers)
    IN [method |-> payload.method, url |-> payload.url,
        headers |-> CID_dict(request_headers), jar |-> instance.cookies]

\* forward / download up to session.request: the headers and the jar the
\* call is made with (the jar is the session's own, and stays as merged)
PrepareCall(instance, payload) ==
    LET request_headers == CID_update(instance.headers, payload.headers)
        cookies == jar_update(instance.cookies, PayloadCookies(payload.cookies))
    IN [method |-> payload.method, url |-> payload.url,
        headers |-> CID_dict(request_headers), jar |-> cookies]

\* what session.request does: a response (of status 200) with its
\* Set-Cookie cookies (one of rcs), or an exception (of one of kinds)
Outcomes(rcs, kinds) == {[kind |-> "response", cookies |-> rc] : rc \in rcs}
                            \cup {[kind |-> k, cookies |-> {}] : k \in kinds}

\* forward's except clauses with ConnectionError tried before Timeout
forward_handlers_connection_first ==
    <<"ConnectionError", "Timeout", "HTTPError", "Exception">>

\* the except clauses of forward and of download, in the order written
forward_handlers == <<"Timeout", "ConnectionError", "HTTPError", "Exception">>
download_handlers == <<"Timeout", "ConnectionError", "Exception">>

except_clause(path, kind) ==
    caught(IF path = <<"forward">> THEN forward_handlers ELSE download_handlers,
           kind)

\* the status_code each except clause answers with
clause_status == [Timeout |-> 408, ConnectionError |-> 502,
                  HTTPError |-> 500, Exception |-> 500]

\* the status forward / download answer with
ForwardStatus(path, outcome) ==
    IF outcome.kind = "response" THEN 200
    ELSE clause_status[except_clause(path, outcome.kind)]

\* the content of the JSONResponse an except clause of forward returns
forward_error(clause, kind, payload) ==
    LET error_type == CASE clause = "Timeout" -> "TimeoutError"
                        [] clause = "Exception" -> kind
                        [] OTHER -> clause
        content == [error |-> kind, error_type |-> error_type,
                    url |-> payload.url, method |-> payload.method]
    IN IF clause = "Timeout"
       THEN [key \in DOMAIN content \cup {"timeout"} |->
                IF key = "timeout" THEN payload.timeout ELSE content[key]]
       ELSE content

\* the same of download: no clause puts the method in
download_error(clause, kind, payload) ==
    LET content == forward_error(clause, kind, payload)
    IN [key \in DOMAIN content \ {"method"} |-> content[key]]

ForwardContent(path, outcome, payload) ==
    IF outcome.kind = "response" THEN NoContent
    ELSE IF path = <<"forward">>
    THEN forward_error(except_clause(path, outcome.kind), outcome.kind, payload)
    ELSE download_error(except_clause(path, outcome.kind), outcome.kind, payload)

\* POST /subscribe
A_Subscribe(client) ==
    /\ nextId <= MaxSubs
    /\ LET session_id == UuidPool[nextId]
           user_agent == IF client[2] = Absent THEN "unknown" ELSE client[2]
       IN /\ Commit(createSession(Store(sessions, closeCount), session_id,
                                  client[1], user_agent, now))
          /\ resp' = [NoResp EXCEPT !.app = "A", !.path = <<"subscribe">>,
                                    !.session = session_id, !.status = 200,
                                    !.ran = TRUE,
                                    !.body = [session_id |-> session_id]]
    /\ nextId' = nextId + 1
    /\ admissions' = [x \in DOMAIN admissions \cup {UuidPool[nextId]} |->
                       IF x = UuidPool[nextId] THEN 0 ELSE admissions[x]]
    /\ UNCHANGED <<manager, loop, procVars, now, evicted, ret, mwSessions, setLog>>

\* POST /unsubscribe
A_Unsubscribe(sid) ==
    LET path == <<"unsubscribe">>
    IN /\ CountOk(sessions, sid, MaxCalls)
       /\ \E g \in {SessionMiddleware_dispatch(Store(sessions, closeCount), path, sid, now)} :
          /\ IF ~g.admit
             THEN /\ Commit(g.st)
                  /\ resp' = A_Rejected(path, sid, Absent)
             ELSE /\ Commit(deleteSession(g.st, g.state_sid))
                  /\ resp' = [A_Admitted(path, sid, Absent) EXCEPT
                                 !.status = 200, !.ran = TRUE]
          /\ admissions' = Admit(g, sessions')
       /\ UNCHANGED <<manager, loop, procVars, now, nextId, evicted, ret, mwSessions, setLog>>

\* the JSON values of a body that are not strings: null, and an array
NonStrings == {Absent, "<array>"}

\* payload: dict[str, str], the validation of the body before the route is
\* called: every value of the object is a string
dict_str_str(payload) ==
    \A i \in DOMAIN payload : payload[i][2] \notin NonStrings

\* the route's own test: isinstance(payload, dict) and all(isinstance(k, str)
\* and isinstance(v, str) for k, v in payload.items())
isinstance_str(payload) ==
    \A i \in DOMAIN payload : payload[i][2] \notin NonStrings

\* POST /set-headers
A_SetHeaders(sid, payload) ==
    LET path == <<"set-headers">>
    IN /\ CountOk(sessions, sid, MaxCalls)
       /\ \E g \in {SessionMiddleware_dispatch(Store(sessions, closeCount), path, sid, now)} :
          /\ IF ~g.admit
             THEN /\ Commit(g.st)
                  /\ resp' = A_Rejected(path, sid, payload)
                  /\ UNCHANGED setLog
             ELSE IF ~dict_str_str(payload)
             THEN /\ Commit(g.st)
                  /\ resp' = [A_Admitted(path, sid, payload) EXCEPT
                                 !.status = 422,
                                 !.content = [detail |-> "validation"]]
                  /\ UNCHANGED setLog
             ELSE IF ~isinstance_str(payload)
             THEN /\ Commit(g.st)
                  /\ resp' = [A_Admitted(path, sid, payload) EXCEPT
                                 !.status = 400, !.ran = TRUE,
                                 !.content = [detail |-> "headers"]]
                  /\ UNCHANGED setLog
             ELSE /\ Commit([g.st EXCEPT !.sessions[sid].instance =
                                            set_headers(@, payload)])
                  /\ resp' = [A_Admitted(path, sid, payload) EXCEPT
                                 !.status = 200, !.ran = TRUE]
                  /\ setLog' = [x \in DOMAIN setLog \cup {sid} |->
                                   IF x = sid THEN payload ELSE setLog[x]]
          /\ admissions' = Admit(g, sessions')
       /\ UNCHANGED <<manager, loop, procVars, now, nextId, evicted, ret, mwSessions>>

\* POST /get-headers
A_GetHeaders(sid) ==
    LET path == <<"get-headers">>
    IN /\ CountOk(sessions, sid, MaxCalls)
       /\ \E g \in {SessionMiddleware_dispatch(Store(sessions, closeCount), path, sid, now)} :
          /\ Commit(g.st)
          /\ resp' = IF ~g.admit
                     THEN A_Rejected(path, sid, Absent)
                     ELSE [A_Admitted(path, sid, Absent) EXCEPT
                              !.status = 200, !.ran = TRUE,
                              !.body = CID_dict(g.st.sessions[sid].instance.headers)]
          /\ admissions' = Admit(g, sessions')
       /\ UNCHANGED <<manager, loop, procVars, now, nextId, evicted, ret, mwSessions, setLog>>

\* POST /get-cookies
A_GetCookies(sid) ==
    LET path == <<"get-cookies">>
    IN /\ CountOk(sessions, sid, MaxCount)
       /\ \E g \in {SessionMiddleware_dispatch(Store(sessions, closeCount), path, sid, now)} :
          /\ Commit(g.st)
          /\ resp' = IF ~g.admit
                     THEN A_Rejected(path, sid, Absent)
                     ELSE [A_Admitted(path, sid, Absent) EXCEPT
                              !.status = 200, !.ran = TRUE,
                              !.body = g.st.sessions[sid].instance.cookies]
          /\ admissions' = Admit(g, sessions')
       /\ UNCHANGED <<manager, loop, procVars, now, nextId, evicted, ret, mwSessions, setLog>>

\* a forward that gives the session up when its call timed out
after_request_drop(st, session_id, call, outcome) ==
    IF outcome.kind \in {"Timeout", "ConnectTimeout"}
    THEN deleteSession(st, session_id)
    ELSE [st EXCEPT !.sessions[session_id].instance.cookies =
             IF outcome.kind = "response"
             THEN store_response_cookies(call.jar, outcome.cookies)
             ELSE call.jar]

\* the store when session.request has returned or raised: the session's jar
\* is the jar of the call, with the cookies of the response if there is one;
\* no except clause does anything to the session
after_request(st, session_id, call, outcome) ==
    [st EXCEPT !.sessions[session_id].instance.cookies =
        IF outcome.kind = "response"
        THEN store_response_cookies(call.jar, outcome.cookies)
        ELSE call.jar]

\* POST /forward and POST /dowwnload: the gateway, the validation of the
\* body, the route (\E x \in {e} names the value of e)
A_Forward(path, sid, body, rcs, kinds) ==
    /\ CountOk(sessions, sid, MaxCount)
    /\ \E g \in {SessionMiddleware_dispatch(Store(sessions, closeCount), path, sid, now)},
          parsed \in {HTTPRequestPayload(body)} :
          /\ IF ~g.admit
             THEN /\ Commit(g.st)
                  /\ resp' = A_Rejected(path, sid, body)
             ELSE IF ~parsed.valid
             THEN /\ Commit(g.st)
                  /\ resp' = [A_Admitted(path, sid, body) EXCEPT
                                 !.status = 422,
                                 !.content = [detail |-> "validation"]]
             ELSE \E outcome \in Outcomes(rcs, kinds),
                     call \in {PrepareCall(g.st.sessions[sid].instance, parsed.payload)} :
                     /\ Commit(after_request(g.st, sid, call, outcome))
                     /\ resp' = [A_Admitted(path, sid, body) EXCEPT
                                    !.status = ForwardStatus(path, outcome),
                                    !.ran = TRUE, !.call = call,
                                    !.outcome = outcome,
                                    !.content = ForwardContent(path, outcome,
                                                               parsed.payload)]
          /\ admissions' = Admit(g, sessions')
    /\ UNCHANGED <<manager, loop, procVars, now, nextId, evicted, ret, mwSessions, setLog>>

\* ------------------------- server/middleware/SessionHandlerMiddleware.py
public_paths == {<<"health">>, <<"docs">>, <<"openapi.json">>, <<"redoc">>,
                 <<>>, <<"my-session">>, <<"subscribe">>, <<"unsubscribe">>}

_requires_authentication(path) == path \notin public_paths

_session_exists(S, session_id) == session_id \in DOMAIN S

_create_session(S, session_id, client_ip, user_agent, t) ==
    [x \in DOMAIN S \cup {session_id} |->
        IF x = session_id
        THEN [session_id |-> session_id,
              client_ip |-> client_ip,
              user_agent |-> user_agent,
              created_at |-> t,
              last_activity |-> t,
              is_authenticated |-> FALSE,
              user_data |-> {},
              cookies |-> {},
              request_count |-> 0]
        ELSE S[x]]

\* the id the request supplies: the session_id cookie, else the header
SuppliedId(cookie, header) == IF Falsy(cookie) THEN header ELSE cookie

\* a _get_or_create_session that makes the session under the id supplied
\* when that id was once issued
_get_or_create_session_reuse(S, cookie, header, fresh, client_ip, user_agent, t) ==
    LET session_id == SuppliedId(cookie, header)
    IN IF Falsy(session_id) \/ ~_session_exists(S, session_id)
       THEN IF session_id \in Ids
            THEN [id |-> session_id,
                  S |-> _create_session(S, session_id, client_ip, user_agent, t)]
            ELSE [id |-> fresh, S |-> _create_session(S, fresh, client_ip, user_agent, t)]
       ELSE [id |-> session_id, S |-> S]

\* fresh is the value uuid4 yields if a session has to be created
_get_or_create_session(S, cookie, header, fresh, client_ip, user_agent, t) ==
    LET session_id == SuppliedId(cookie, header)
    IN IF Falsy(session_id) \/ ~_session_exists(S, session_id)
       THEN [id |-> fresh, S |-> _create_session(S, fresh, client_ip, user_agent, t)]
       ELSE [id |-> session_id, S |-> S]

_is_session_valid(S, session_id, t) ==
    IF ~_session_exists(S, session_id)
    THEN [ok |-> FALSE, S |-> S]
    ELSE IF Expired(S[session_id], t)
         THEN [ok |-> FALSE, S |-> Restrict(S, DOMAIN S \ {session_id})]
         ELSE [ok |-> TRUE, S |-> S]

_update_session_activity(S, session_id, t) ==
    IF _session_exists(S, session_id)
    THEN [S EXCEPT ![session_id].last_activity = t,
                   ![session_id].request_count = @ + 1]
    ELSE S

_cleanup_expired_sessions(S, t) ==
    LET expired_sessions == {id \in DOMAIN S : Expired(S[id], t)}
    IN Restrict(S, DOMAIN S \ expired_sessions)

\* dispatch's except clause: the status and the error_type, chosen by what
\* str(type(e)) contains (an exception session.request raises has no
\* status_code attribute)
dispatch_error(kind) ==
    IF contains(type_str[kind], <<"C","o","n","n","e","c","t","i","o","n","E","r","r","o","r">>)
    THEN [status |-> 502, error_type |-> "ConnectionError"]
    ELSE IF contains(type_str[kind], <<"T","i","m","e","o","u","t">>)
    THEN [status |-> 408, error_type |-> "TimeoutError"]
    ELSE IF contains(type_str[kind], <<"H","T","T","P","E","r","r","o","r">>)
    THEN [status |-> 500, error_type |-> "HTTPError"]
    ELSE [status |-> 500, error_type |-> kind]

\* the content of the error response: path and method are the request's own
dispatch_content(kind, session_id, path) ==
    [error |-> kind, error_type |-> dispatch_error(kind).error_type,
     session_id |-> session_id, process_time |-> "s", timestamp |-> "now",
     path |-> path, method |-> "POST"]

\* the headers dispatch sets on the response it returns, after call_next and
\* in its except clause alike
dispatch_headers(session_id) ==
    ("X-Session-ID" :> session_id) @@ ("X-Process-Time" :> "s")

\* dispatch: the request is served to its end.  call_next[session_id] is
\* what call_next does with request.state.session_id = session_id: the
\* status of its response and whether a route handler ran (\E x \in {e} names the
\* value of e)
B_dispatch(path, cookie, header, client, call_next) ==
    LET supplied == SuppliedId(cookie, header)
        create == Falsy(supplied) \/ ~_session_exists(mwSessions, supplied)
        user_agent == IF client[2] = Absent THEN "Unknown" ELSE client[2]
    IN /\ create => nextId <= MaxIds
       /\ CountOk(mwSessions, supplied, MaxCount)
       /\ nextId' = IF create THEN nextId + 1 ELSE nextId
       /\ \E got \in {_get_or_create_session(mwSessions, cookie, header,
                           UuidPool[nextId], client[1], user_agent, now)} :
          \E valid \in {_is_session_valid(got.S, got.id, now)} :
          LET session_id == got.id
              request == [NoResp EXCEPT !.app = "B", !.path = path,
                                        !.cookie = cookie, !.sid = header,
                                        !.session = session_id,
                                        !.live = Live(mwSessions, supplied, now)]
          IN IF _requires_authentication(path) /\ ~valid.ok
             THEN /\ mwSessions' = valid.S
                  /\ resp' = [request EXCEPT
                                 !.status = 401,
                                 !.content = [error |-> "session",
                                              session_id |-> session_id,
                                              message |-> "login"]]
                  /\ UNCHANGED session
             ELSE \E done \in {call_next[session_id]} :
                  /\ session' = done.session
                  /\ IF done.raised = Absent
                     THEN /\ mwSessions' = _update_session_activity(got.S, session_id, now)
                          /\ resp' = [request EXCEPT !.status = done.status,
                                                     !.ran = done.ran,
                                                     !.body = done.body,
                                                     !.call = done.call,
                                                     !.before = session,
                                                     !.outcome = done.outcome,
                                                     !.content = done.content,
                                                     !.headers = dispatch_headers(session_id)]
                     ELSE /\ mwSessions' = got.S
                          /\ resp' = [request EXCEPT
                                         !.status = dispatch_error(done.raised).status,
                                         !.ran = done.ran,
                                         !.call = done.call,
                                         !.before = session,
                                         !.outcome = done.outcome,
                                         !.raised = done.raised,
                                         !.content = dispatch_content(done.raised, session_id, path),
                                         !.headers = dispatch_headers(session_id)]
       /\ UNCHANGED <<manager, loop, admissions, threads, now, storeVars, setLog>>

\* the periodic cleanup task
B_Sweeper ==
    /\ mwSessions' = _cleanup_expired_sessions(mwSessions, now)
    /\ mwSessions' # mwSessions
    /\ UNCHANGED <<manager, loop, admissions, procVars, now, nextId, storeVars, resp, setLog>>

\* --------------------------------------------------- server/routes/api.py
\* an HTTPException raised by a route is turned into a response with its
\* status by FastAPI's exception handler, inside the middleware
subscribe_B(session_id) ==
    IF Falsy(session_id) THEN 500 ELSE 201

\* an unsubscribe that lets a caller name any session
unsubscribe_B_any(session_id, current_session_id) ==
    IF Falsy(current_session_id) THEN 500 ELSE 200

\* DELETE /unsubscribe/{session_id}; no branch removes a session
unsubscribe_B(session_id, current_session_id) ==
    IF Falsy(current_session_id) THEN 500
    ELSE IF session_id # current_session_id THEN 403
    ELSE 200

\* what call_next comes to when a route handler ran and returned a response
\* of this status: nothing raised, the module's session as it was
HandlerRan(status) ==
    [status |-> status, ran |-> TRUE, raised |-> Absent, session |-> session,
     body |-> Absent, call |-> NoCall, outcome |-> NoOutcome,
     content |-> NoContent]

\* POST /subscribe
B_Subscribe(cookie, header, client) ==
    LET call_next == [session_id \in Ids |-> HandlerRan(subscribe_B(session_id))]
    IN B_dispatch(<<"subscribe">>, cookie, header, client, call_next)

\* DELETE /unsubscribe/{named}
B_Unsubscribe(named, cookie, header, client) ==
    LET call_next == [session_id \in Ids |-> HandlerRan(unsubscribe_B(named, session_id))]
    IN B_dispatch(<<"unsubscribe", named>>, cookie, header, client, call_next)

\* POST /get-headers
B_GetHeaders(cookie, header, client) ==
    LET call_next == [session_id \in Ids |->
                         [HandlerRan(200) EXCEPT !.body = CID_dict(session.headers)]]
    IN B_dispatch(<<"get-headers">>, cookie, header, client, call_next)

\* a path no route matches (DELETE /unsubscribe): the router answers 404
B_NoRoute(cookie, header, client) ==
    LET call_next == [session_id \in Ids |-> [HandlerRan(404) EXCEPT !.ran = FALSE]]
    IN B_dispatch(<<"unsubscribe">>, cookie, header, client, call_next)

\* ------------------------------------------------------------------ SpecB
\* the ids a client can present: none, an empty one, a made-up one, or one
\* some response has told it
KnownIds == {Absent, "", Forged} \cup issued

\* (session_id cookie, X-Session-ID header) of a request
B_Credentials == {<<Absent, header>> : header \in KnownIds}
                     \cup {<<cookie, Forged>> : cookie \in issued}

B_Next ==
    \/ Tick
    \/ \E cr \in B_Credentials, client \in HttpClients :
           B_Subscribe(cr[1], cr[2], client)
    \/ \E named \in issued \cup {Forged}, header \in issued \cup {Absent},
          client \in HttpClients :
           B_Unsubscribe(named, Absent, header, client)
    \/ \E cr \in B_Credentials, client \in HttpClients :
           B_GetHeaders(cr[1], cr[2], client)
    \/ \E header \in issued \cup {Absent}, client \in HttpClients :
           B_NoRoute(Absent, header, client)
    \/ B_Sweeper

SpecB == StoreInit /\ [][B_Next]_vars

\* ------------------------------------------------------------ SpecHeaders
\* header names: two that differ only in case, and one requests.Session()
\* already sets
h_XTrace == <<"X","-","T">>
h_xtrace == <<"x","-","t">>

\* the bodies posted to /set-headers (JSON objects, items in written order)
HeaderPayloads ==
    { <<>>,
      << <<h_XTrace, "1">> >>,
      << <<h_xtrace, "2">> >>,
      << <<h_Accept, "text/html">> >>,
      << <<h_Accept, "text/html">>, <<h_XTrace, "2">> >>,
      << <<h_XTrace, "1">>, <<h_xtrace, "2">> >> }

HeadersNext ==
    \/ \E client \in HttpClients : A_Subscribe(client)
    \/ \E sid \in KnownIds, payload \in HeaderPayloads : A_SetHeaders(sid, payload)
    \/ \E sid \in KnownIds : A_GetHeaders(sid)
    \/ \E sid \in KnownIds : A_Unsubscribe(sid)

SpecHeaders == StoreInit /\ [][HeadersNext]_vars

\* ------------------------------------------------------------ SpecForward
m_get == <<"g","e","t">>
m_Post == <<"P","o","s","t">>
m_TRACE == <<"T","R","A","C","E">>
m_gets == <<"g","e","t","s">>
u_http == <<"h","t","t","p",":","/","/","t">>
u_https == <<"h","t","t","p","s",":","/","/","t">>
u_HTTP == <<"H","T","T","P",":","/","/","t">>
u_ftp == <<"f","t","p",":","/","/","t">>
u_slash == <<"h","t","t","p",":","/","t">>

Cookie(value, domain) == [value |-> value, domain |-> domain, path |-> "/"]

\* the cookies objects posted: none, one cookie, the same key with another
\* value, the same name on another domain, one without a path
CookiePayloads ==
    { <<>>,
      "a" :> Cookie("1", "d.test"),
      "a" :> Cookie("2", "d.test"),
      "a" :> Cookie("1", "e.test"),
      "a" :> [value |-> "1", domain |-> "d.test"] }

\* a body that leaves the timeout out
Body(method, url, headers, cookies) ==
    [method |-> method, url |-> url, headers |-> headers, cookies |-> cookies,
     timeout |-> timeout_default]

\* Accept, as a client may write it
h_accept == <<"a","c","c","e","p","t">>

\* the bodies posted to /forward
ForwardBodies ==
    {Body(m_get, u, <<>>, <<>>) : u \in {u_http, u_HTTP, u_ftp, u_slash}}
        \cup {Body(m_get, u_http, <<>>, c) : c \in CookiePayloads}
        \cup {Body(m_Post, u_https, << <<h_XTrace, "1">>, <<h_accept, "text/html">> >>, <<>>),
              Body(m_gets, u_http, <<>>, <<>>),
              [Body(m_get, u_http, <<>>, <<>>) EXCEPT !.timeout = timeout_ge - 1],
              [Body(m_get, u_http, <<>>, <<>>) EXCEPT !.timeout = timeout_le + 1],
              Body(m_TRACE, u_http, << <<h_XTrace, "1">> >>, "a" :> Cookie("2", "d.test"))}

\* the bodies posted to /dowwnload
DownloadBodies ==
    {Body(m_get, u_http, << <<h_XTrace, "1">> >>, "a" :> Cookie("1", "e.test")),
     Body(m_get, u_ftp, <<>>, "a" :> Cookie("1", "e.test"))}

\* the Set-Cookie cookies of a response
ResponseCookies ==
    {{}, {[name |-> "sid", value |-> "abc", domain |-> "t", path |-> "/"]}}

ForwardNext ==
    \/ \E client \in HttpClients : A_Subscribe(client)
    \/ \E sid \in issued, body \in ForwardBodies :
           A_Forward(<<"forward">>, sid, body, ResponseCookies, {"Timeout"})
    \/ \E sid \in {Absent, Forged} :
           A_Forward(<<"forward">>, sid, Body(m_get, u_ftp, <<>>, <<>>), ResponseCookies,
                     {"Timeout"})
    \/ \E sid \in issued, body \in DownloadBodies :
           A_Forward(<<"dowwnload">>, sid, body, ResponseCookies, {"Timeout"})
    \/ \E sid \in issued : A_GetCookies(sid)

SpecForward == StoreInit /\ [][ForwardNext]_vars


\* ------------------------------------------------------------- SpecErrors
\* forward and download against a target that fails in every way
\* the bodies posted: one that leaves the timeout out, one that gives a
\* cookie and a timeout
ErrorBodies ==
    {Body(m_get, u_http, <<>>, <<>>),
     [Body(m_Post, u_https, <<>>, "a" :> Cookie("1", "d.test")) EXCEPT
         !.timeout = timeout_ge],
     [Body(m_Post, u_https, <<>>, "a" :> Cookie("2", "d.test")) EXCEPT
         !.timeout = timeout_le]}

ErrorsNext ==
    \/ \E client \in HttpClients : A_Subscribe(client)
    \/ \E sid \in issued \cup {Absent, Forged}, body \in ErrorBodies :
           A_Forward(<<"forward">>, sid, body, {{}}, ExceptionKinds)
    \/ \E sid \in issued, body \in ErrorBodies :
           A_Forward(<<"dowwnload">>, sid, body, {{}}, ExceptionKinds)

SpecErrors == StoreInit /\ [][ErrorsNext]_vars

\* ----------------------------------------------------------- SpecTimeouts
\* forward and download against a target that answers or times out, while
\* the clock goes on
TimeoutKinds == {"Timeout"}

\* the bodies posted: one with no cookie and no timeout, one with both
TimeoutBodies ==
    {Body(m_get, u_http, <<>>, <<>>),
     [Body(m_Post, u_https, <<>>, "a" :> Cookie("1", "d.test")) EXCEPT
         !.timeout = timeout_ge]}

TimeoutsNext ==
    \/ Tick
    \/ \E client \in HttpClients : A_Subscribe(client)
    \/ \E sid \in issued, body \in TimeoutBodies :
           A_Forward(<<"forward">>, sid, body, {{}}, TimeoutKinds)
    \/ \E sid \in issued, body \in TimeoutBodies :
           A_Forward(<<"dowwnload">>, sid, body, {{}}, TimeoutKinds)

SpecTimeouts == StoreInit /\ [][TimeoutsNext]_vars
\* ------------------------------------------------------------ SpecBProxy
\* server/routes/api.py serves every session from the module's one
\* requests.Session
\* POST /set-headers
B_SetHeaders(cookie, header, client, payload) ==
    LET call_next == [session_id \in Ids |->
                         [HandlerRan(200) EXCEPT !.session = set_headers(session, payload)]]
    IN B_dispatch(<<"set-headers">>, cookie, header, client, call_next)

\* forward: no except clause, what session.request raises goes up to the
\* middleware with the cookies of the body already in the jar
forward_B(payload, outcome) ==
    LET call == PrepareCall(session, payload)
    IN IF outcome.kind = "response"
       THEN [HandlerRan(200) EXCEPT
                !.session.cookies = store_response_cookies(call.jar, outcome.cookies),
                !.call = call, !.outcome = outcome]
       ELSE [HandlerRan(0) EXCEPT
                !.raised = outcome.kind,
                !.session.cookies = call.jar,
                !.call = call, !.outcome = outcome]

\* POST /forward: a body that fails validation is answered 422 by the router
B_Forward(cookie, header, client, body, rcs, kinds) ==
    \E parsed \in {HTTPRequestPayload(body)} :
       IF ~parsed.valid
       THEN LET call_next == [session_id \in Ids |->
                                 [HandlerRan(422) EXCEPT
                                     !.ran = FALSE,
                                     !.content = [detail |-> "validation"]]]
            IN B_dispatch(<<"forward">>, cookie, header, client, call_next)
       ELSE \E outcome \in Outcomes(rcs, kinds) :
            LET call_next == [session_id \in Ids |->
                                 forward_B(parsed.payload, outcome)]
            IN B_dispatch(<<"forward">>, cookie, header, client, call_next)

\* the bodies posted to B's /forward
ProxyBodies ==
    {Body(m_get, u_http, << <<h_XTrace, "1">> >>, "a" :> Cookie("2", "d.test")),
     Body(m_gets, u_http, <<>>, <<>>)}

ProxyHeaders == {<<>>, << <<h_XTrace, "1">> >>}

BProxyNext ==
    \/ \E header \in issued \cup {Absent}, client \in HttpClients,
          payload \in ProxyHeaders :
           B_SetHeaders(Absent, header, client, payload)
    \/ \E header \in issued \cup {Absent}, client \in HttpClients :
           B_GetHeaders(Absent, header, client)
    \/ \E header \in issued \cup {Absent}, client \in HttpClients,
          body \in ProxyBodies :
           B_Forward(Absent, header, client, body, {{}}, ExceptionKinds)

SpecBProxy == StoreInit /\ [][BProxyNext]_vars

\* ---------------------------------------------------------------- SpecRace
\* unsubscribe is a def route: it runs on a worker thread, and two requests
\* run deleteSession at once.  deleteSession is three steps, and another
\* thread can run between any two:
\*     if self.sessionExists(session_id):                     "exists"
\*         self._sessions[session_id]["instance"].close()     "close"
\*         del self._sessions[session_id]                     "del"
\* The gateway runs on the event loop, in one step.
\* POST /unsubscribe, up to the call of deleteSession
Unsubscribe_begin(w, sid) ==
    /\ threads[w] = Idle
    /\ CountOk(sessions, sid, MaxCalls)
    /\ \E g \in {SessionMiddleware_dispatch(Store(sessions, closeCount),
                                            <<"unsubscribe">>, sid, now)} :
          /\ g.admit
          /\ Commit(g.st)
          /\ admissions' = Admit(g, sessions')
          /\ threads' = [threads EXCEPT ![w] = [Idle EXCEPT !.pc = "exists", !.id = g.state_sid]]
    /\ resp' = [NoResp EXCEPT !.app = "A", !.path = <<"unsubscribe">>,
                              !.sid = sid, !.session = sid, !.live = TRUE]
    /\ UNCHANGED <<manager, loop, session, now, nextId, evicted, ret, mwSessions, setLog>>

\* the response of an unsubscribe whose deleteSession has ended: 200, or the
\* gateway's 500 when deleteSession raised
Unsubscribe_end(w, raised) ==
    /\ threads' = [threads EXCEPT ![w] = Idle]
    /\ resp' = [NoResp EXCEPT
                   !.app = "A", !.path = <<"unsubscribe">>,
                   !.sid = threads[w].id, !.session = threads[w].id,
                   !.ran = TRUE,
                   !.raised = raised,
                   !.status = IF raised = Absent THEN 200 ELSE 500,
                   !.content = IF raised = Absent THEN NoContent
                               ELSE [message |-> "error", error |-> raised]]

\* if self.sessionExists(session_id):
deleteSession_exists(w) ==
    /\ threads[w].pc = "exists"
    /\ IF sessionExists(Store(sessions, closeCount), threads[w].id)
       THEN /\ threads' = [threads EXCEPT ![w].pc = "close"]
            /\ UNCHANGED resp
       ELSE Unsubscribe_end(w, Absent)
    /\ UNCHANGED <<manager, loop, admissions, session, now, nextId, storeVars, mwSessions, setLog>>

\* self._sessions[session_id]["instance"].close()
deleteSession_close(w) ==
    /\ threads[w].pc = "close"
    /\ IF threads[w].id \in DOMAIN sessions
       THEN /\ closeCount' = [closeCount EXCEPT ![threads[w].id] = @ + 1]
            /\ threads' = [threads EXCEPT ![w].pc = "del"]
            /\ UNCHANGED resp
       ELSE /\ Unsubscribe_end(w, "KeyError")
            /\ UNCHANGED closeCount
    /\ UNCHANGED <<manager, loop, admissions, session, now, nextId, sessions, evicted, ret, mwSessions, setLog>>

\* del self._sessions[session_id]
deleteSession_del(w) ==
    /\ threads[w].pc = "del"
    /\ IF threads[w].id \in DOMAIN sessions
       THEN /\ sessions' = Restrict(sessions, DOMAIN sessions \ {threads[w].id})
            /\ Unsubscribe_end(w, Absent)
       ELSE /\ Unsubscribe_end(w, "KeyError")
            /\ UNCHANGED sessions
    /\ admissions' = Restrict(admissions, DOMAIN admissions \cap DOMAIN sessions')
    /\ UNCHANGED <<manager, loop, session, now, nextId, closeCount, evicted, ret, mwSessions, setLog>>

RaceNext ==
    \/ \E client \in HttpClients : A_Subscribe(client)
    \/ Tick
    \/ \E w \in Threads, sid \in issued : Unsubscribe_begin(w, sid)
    \/ \E sid \in issued : A_GetCookies(sid)
    \/ \E w \in Threads : deleteSession_exists(w)
    \/ \E w \in Threads : deleteSession_close(w)
    \/ \E w \in Threads : deleteSession_del(w)

SpecRace == StoreInit /\ [][RaceNext]_vars

\* ---------------------------------------------------------- health checks
\* what requests.get("https://www.google.com", timeout=5) comes to: a
\* response with its status code, or an exception
Probes == {[kind |-> "response", cookies |-> {}, status_code |-> c] : c \in {200, 429}}
              \cup {[kind |-> k, cookies |-> {}, status_code |-> 0] : k \in ExceptionKinds}

health_handlers == <<"Timeout", "ConnectionError", "Exception">>

health_detail == [Timeout |-> "timeout", ConnectionError |-> "connection",
                  Exception |-> "internal"]

\* routes/api.py GET /health-check: every except clause answers 503
health(probe) ==
    IF probe.kind = "response"
    THEN IF probe.status_code = 200
         THEN [status |-> 200, raised |-> Absent,
               content |-> [status |-> "OK", internet |-> TRUE,
                            detail |-> "available"]]
         ELSE [status |-> 503, raised |-> Absent,
               content |-> [status |-> "Service Unavailable", internet |-> FALSE,
                            detail |-> "unexpected"]]
    ELSE [status |-> 503, raised |-> Absent,
          content |-> [status |-> "Service Unavailable", internet |-> FALSE,
                       detail |-> health_detail[caught(health_handlers, probe.kind)]]]

\* GET /health-check with this X-Session-Id header
A_Health(sid, probe) ==
    LET path == <<"health-check">>
    IN /\ \E g \in {SessionMiddleware_dispatch(Store(sessions, closeCount), path, sid, now)},
             done \in {health(probe)} :
          /\ Commit(g.st)
          /\ admissions' = Admit(g, sessions')
          /\ resp' = IF ~g.admit
                     THEN A_Rejected(path, sid, Absent)
                     ELSE [NoResp EXCEPT !.app = "A", !.path = path, !.sid = sid,
                                         !.live = Live(sessions, sid, now),
                                         !.status = done.status, !.ran = TRUE,
                                         !.raised = done.raised,
                                         !.outcome = probe,
                                         !.content = done.content]
       /\ UNCHANGED <<manager, loop, procVars, now, nextId, evicted, ret, mwSessions, setLog>>

\* server/routes/api.py GET /health: no try, what requests.get raises goes
\* up to the middleware
health_B(probe) ==
    IF probe.kind = "response"
    THEN [HandlerRan(IF probe.status_code = 200 THEN 200 ELSE 503) EXCEPT
             !.outcome = probe]
    ELSE [HandlerRan(0) EXCEPT !.raised = probe.kind, !.outcome = probe]

B_Health(cookie, header, client, probe) ==
    LET call_next == [session_id \in Ids |-> health_B(probe)]
    IN B_dispatch(<<"health">>, cookie, header, client, call_next)

\* ------------------------------------------------------------- SpecHealth
\* the two health checks, and B's gateway around its own
HealthNext ==
    \/ Tick
    \/ \E probe \in Probes : A_Health(Absent, probe)
    \/ \E cr \in B_Credentials, client \in HttpClients, probe \in Probes :
           B_Health(cr[1], cr[2], client, probe)
    \/ \E header \in issued \cup {Absent}, client \in HttpClients :
           B_GetHeaders(Absent, header, client)
    \/ B_Sweeper

SpecHealth == StoreInit /\ [][HealthNext]_vars

\* --------------------------------------------------------------- SpecGate
\* requests to A on public and protected paths, with and without an id
GatePayloads ==
    { << <<h_XTrace, "1">> >>,
      << <<h_XTrace, Absent>> >>,
      << <<h_Accept, "text/html">>, <<h_XTrace, "<array>">> >> }

GateProbes == {p \in Probes : p.kind = "Timeout" \/ p.status_code = 200}

GateNext ==
    \/ Tick
    \/ \E client \in HttpClients : A_Subscribe(client)
    \/ \E sid \in issued \cup {Absent}, probe \in GateProbes : A_Health(sid, probe)
    \/ \E sid \in issued \cup {Absent}, payload \in GatePayloads :
           A_SetHeaders(sid, payload)
    \/ \E sid \in issued : A_GetHeaders(sid)
    \/ \E sid \in issued : A_Unsubscribe(sid)

SpecGate == StoreInit /\ [][GateNext]_vars

\* no request is owed to the server: only the clock is sure to go on.  A has
\* no task of its own that sweeps
SpecGateLive == SpecGate /\ WF_vars(Tick)
\* -------------------------------------------------------------- SpecSweep
\* the SessionManager under two callers.  cleanupExpiredSessions is a scan
\* and then a loop, and another caller can run between any two steps:
\*     current_time = datetime.now()
\*     for session_id, session_data in self._sessions.items(): ...  "scan"
\*     for session_id in expired_sessions:
\*         self.deleteSession(session_id)                           "loop"
\* the list the scan builds, in the order of the dictionary (the order the
\* sessions were created in)
expired_sessions(st, t) ==
    SelectSeq(UuidPool, LAMBDA id : /\ id \in DOMAIN st.sessions
                                    /\ Expired(st.sessions[id], t))

\* server/sesions/sesion_manager.py: the session map of B's SessionManager
\* class, which no module of B imports
delete_session(S, session_id) ==
    IF session_id \in DOMAIN S
    THEN Restrict(S, DOMAIN S \ {session_id})
    ELSE S

cleanup_scan(w) ==
    /\ threads[w] = Idle
    /\ threads' = [threads EXCEPT ![w] =
                      [Idle EXCEPT !.pc = "loop",
                                   !.current_time = now,
                                   !.expired = expired_sessions(
                                       Store(sessions, closeCount), now)]]
    /\ ret' = NoRet
    /\ UNCHANGED <<manager, loop, admissions, session, now, nextId, sessions, closeCount,
                   evicted, mwSessions, resp, setLog>>

cleanup_delete(w) ==
    /\ threads[w].pc = "loop"
    /\ threads[w].expired # <<>>
    /\ Commit(deleteSession(Store(sessions, closeCount), Head(threads[w].expired)))
    /\ threads' = [threads EXCEPT ![w].expired = Tail(@)]
    /\ ret' = NoRet
    /\ UNCHANGED <<manager, loop, admissions, session, now, nextId, evicted, mwSessions, resp, setLog>>

cleanup_return(w) ==
    /\ threads[w].pc = "loop"
    /\ threads[w].expired = <<>>
    /\ threads' = [threads EXCEPT ![w] = Idle]
    /\ ret' = [op |-> "sweep", id |-> Absent, val |-> Absent]
    /\ UNCHANGED <<manager, loop, admissions, session, now, nextId, sessions, closeCount,
                   evicted, mwSessions, resp, setLog>>

SweepNext ==
    \/ Tick
    \/ \E c \in Clients : CallCreate(c[1], c[2])
    \/ \E id \in issued : CallTouch(id)
    \/ \E w \in Threads : cleanup_scan(w)
    \/ \E w \in Threads : cleanup_delete(w)
    \/ \E w \in Threads : cleanup_return(w)

SpecSweep == StoreInit /\ [][SweepNext]_vars
\* ----------------------------------------------------------- SpecSingleton
\* the SessionManager from the class statement on: constructions with one
\* timeout or another, and calls on the instance they return
Timeouts == {SessionTimeout, SessionTimeout + 1, session_timeout_default}

\* SessionManager(session_timeout=...) in routes/api.py, SessionManager() in
\* SessionMiddleware.dispatch
Construct(session_timeout) ==
    /\ manager' = __new__(manager, session_timeout)
    /\ ret' = [op |-> "new", id |-> Absent,
               val |-> [instance |-> manager'._instance,
                        session_timeout |-> session_timeout]]
    /\ UNCHANGED <<loop, admissions, procVars, now, nextId, sessions, closeCount, evicted, mwSessions, resp, setLog>>

Constructed == manager._instance # Absent

SingletonNext ==
    \/ Tick
    \/ \E session_timeout \in Timeouts : Construct(session_timeout)
    \/ Constructed /\ \E c \in HttpClients : CallCreate(c[1], c[2])
    \/ Constructed /\ \E id \in CallIds : CallIsValid(id)
    \/ Constructed /\ \E id \in issued : CallTouch(id)
    \/ Constructed /\ CallSweep

SingletonInit ==
    /\ ClassInit
    /\ manager = Unconstructed

SpecSingleton == SingletonInit /\ [][SingletonNext]_vars

\* -------------------------------------------------------------- SpecFlight
\* a protected request in two parts: SessionMiddleware.dispatch on the event
\* loop, in one step, and the route (def, not async def) on a worker thread,
\* where it looks the session up and, in forward and download, makes its
\* call.  Other requests are served in between.

\* getSessionInstance: raised is the exception, Absent if there is none
getSessionInstance(st, session_id) ==
    LET found == getSession(st, session_id)
    IN IF found = NotFound
       THEN [raised |-> "ValueError", instance |-> Absent]
       ELSE [raised |-> Absent, instance |-> found.instance]

\* the body the forward and download requests of this specification carry
FlightPayload ==
    HTTPRequestPayload(Body(m_get, u_http, <<>>, "a" :> Cookie("1", "d.test"))).payload

FlightPaths == {<<"get-headers">>, <<"forward">>, <<"dowwnload">>}

\* the gateway of a request of path: the request is handed to worker w
Route_begin(w, path, sid) ==
    /\ threads[w] = Idle
    /\ CountOk(sessions, sid, MaxCalls)
    /\ \E g \in {SessionMiddleware_dispatch(Store(sessions, closeCount),
                                            path, sid, now)} :
          /\ g.admit
          /\ Commit(g.st)
          /\ admissions' = Admit(g, sessions')
          /\ threads' = [threads EXCEPT ![w] =
                            [Idle EXCEPT !.pc = "getSessionInstance",
                                         !.id = g.state_sid, !.path = path]]
    /\ resp' = [NoResp EXCEPT !.app = "A", !.path = path,
                              !.sid = sid, !.session = sid, !.live = TRUE]
    /\ UNCHANGED <<manager, loop, session, now, nextId, evicted, ret, mwSessions, setLog>>

\* the response of the request worker w has run
Route_end(w, status, raised, outcome) ==
    /\ threads' = [threads EXCEPT ![w] = Idle]
    /\ resp' = [NoResp EXCEPT
                   !.app = "A", !.path = threads[w].path,
                   !.sid = threads[w].id, !.session = threads[w].id,
                   !.ran = TRUE, !.raised = raised, !.status = status,
                   !.outcome = outcome]

\* session = session_manager.getSessionInstance(request.state.session_id):
\* a ValueError is answered 500, by the except clause of forward and of
\* download or by the gateway's; get_headers answers with what it found;
\* forward and download set the cookies of the body and go on to the call
Route_getSessionInstance(w) ==
    /\ threads[w].pc = "getSessionInstance"
    /\ \E got \in {getSessionInstance(Store(sessions, closeCount), threads[w].id)} :
          IF got.raised # Absent
          THEN /\ Route_end(w, 500, got.raised, NoResp.outcome)
               /\ UNCHANGED sessions
          ELSE IF threads[w].path = <<"get-headers">>
          THEN /\ Route_end(w, 200, Absent, NoResp.outcome)
               /\ UNCHANGED sessions
          ELSE /\ threads' = [threads EXCEPT ![w].pc = "request"]
               /\ sessions' = [sessions EXCEPT ![threads[w].id].instance.cookies =
                                  PrepareCall(got.instance, FlightPayload).jar]
               /\ UNCHANGED resp
    /\ UNCHANGED <<manager, loop, admissions, session, now, nextId, closeCount, evicted, ret, mwSessions, setLog>>

\* session.request(...) returns or raises: the route holds the
\* requests.Session it looked up, whether or not the store still has it
Route_request(w, outcome) ==
    /\ threads[w].pc = "request"
    /\ Route_end(w, ForwardStatus(threads[w].path, outcome), Absent, outcome)
    /\ IF threads[w].id \in DOMAIN sessions
       THEN sessions' = after_request(Store(sessions, closeCount), threads[w].id,
                                      [jar |-> sessions[threads[w].id].instance.cookies],
                                      outcome).sessions
       ELSE UNCHANGED sessions
    /\ UNCHANGED <<manager, loop, admissions, session, now, nextId, closeCount, evicted, ret, mwSessions, setLog>>

FlightNext ==
    \/ Tick
    \/ \E client \in HttpClients : A_Subscribe(client)
    \/ \E w \in Threads, path \in FlightPaths, sid \in issued :
          Route_begin(w, path, sid)
    \/ \E w \in Threads : Route_getSessionInstance(w)
    \/ \E w \in Threads, outcome \in Outcomes({{}}, {"Timeout"}) :
          Route_request(w, outcome)
    \/ \E sid \in issued : A_Unsubscribe(sid)

SpecFlight == StoreInit /\ [][FlightNext]_vars

\* ---------------------------------------------------------------- SpecScan
\* SessionMiddleware.dispatch is a coroutine: it runs on the event loop, one
\* request at a time up to its await.  The routes are def functions: each
\* runs on a worker thread, beside the event loop.  Here the event loop goes
\* through cleanupExpiredSessions turn by turn,
\*     for session_id, session_data in self._sessions.items(): ...  "scan"
\*     for session_id in expired_sessions:                          "loop"
\*         self.deleteSession(session_id)                           "del"
\* while workers run createSession (subscribe) and deleteSession
\* (unsubscribe).  A dictionary keeps its items in the order they were set,
\* and its iterator raises RuntimeError at the first turn that finds the
\* number of items changed.

\* a protected request reaches manager.cleanupExpiredSessions()
dispatch_begin(sid) ==
    /\ loop = LoopIdle
    /\ CountOk(sessions, sid, MaxCalls)
    /\ loop' = [LoopIdle EXCEPT !.pc = "scan", !.id = sid,
                                !.size = Cardinality(DOMAIN sessions),
                                !.current_time = now]
    /\ UNCHANGED <<manager, admissions, procVars, now, nextId, storeVars, mwSessions, resp, setLog>>

\* the response of the request the event loop is serving
dispatch_end(status, raised) ==
    /\ loop' = LoopIdle
    /\ resp' = [NoResp EXCEPT
                   !.app = "A", !.path = <<"get-cookies">>,
                   !.sid = loop.id, !.session = loop.id,
                   !.ran = (status = 200), !.raised = raised, !.status = status,
                   !.content = IF raised = Absent THEN NoContent
                               ELSE [message |-> "error", error |-> raised]]

\* one turn of the first for statement
cleanup_next ==
    /\ loop.pc = "scan"
    /\ IF Cardinality(DOMAIN sessions) # loop.size
       THEN dispatch_end(500, "RuntimeError")
       ELSE LET rest == {i \in loop.pos..Len(UuidPool) :
                            UuidPool[i] \in DOMAIN sessions}
            IN /\ IF rest = {}
                  THEN loop' = [loop EXCEPT !.pc = "loop"]
                  ELSE \E i \in rest :
                          /\ \A j \in rest : i <= j
                          /\ loop' = [loop EXCEPT
                                !.pos = i + 1,
                                !.expired =
                                   IF Expired(sessions[UuidPool[i]], loop.current_time)
                                   THEN Append(@, UuidPool[i]) ELSE @]
               /\ UNCHANGED resp
    /\ UNCHANGED <<manager, admissions, procVars, now, nextId, storeVars, mwSessions, setLog>>

\* deleteSession in a turn of the second for statement:
\* if self.sessionExists(session_id)
cleanup_exists ==
    /\ loop.pc = "loop"
    /\ loop.expired # <<>>
    /\ IF sessionExists(Store(sessions, closeCount), Head(loop.expired))
       THEN loop' = [loop EXCEPT !.pc = "del"]
       ELSE loop' = [loop EXCEPT !.expired = Tail(@)]
    /\ UNCHANGED <<manager, admissions, procVars, now, nextId, storeVars, mwSessions, resp, setLog>>

\* self._sessions[session_id]["instance"].close() and
\* del self._sessions[session_id]
cleanup_del ==
    /\ loop.pc = "del"
    /\ IF Head(loop.expired) \in DOMAIN sessions
       THEN /\ Commit(deleteSession(Store(sessions, closeCount), Head(loop.expired)))
            /\ loop' = [loop EXCEPT !.pc = "loop", !.expired = Tail(@)]
            /\ UNCHANGED resp
       ELSE /\ dispatch_end(500, "KeyError")
            /\ UNCHANGED <<sessions, closeCount>>
    /\ admissions' = Restrict(admissions, DOMAIN admissions \cap DOMAIN sessions')
    /\ UNCHANGED <<manager, procVars, now, nextId, evicted, ret, mwSessions, setLog>>

\* the sweep has returned: isSessionValid, updateLastActivity, call_next
dispatch_validate ==
    /\ loop.pc = "loop"
    /\ loop.expired = <<>>
    /\ \E valid \in {isSessionValid(Store(sessions, closeCount), loop.id, now)} :
          IF ~valid.ok
          THEN /\ Commit(valid.st)
               /\ dispatch_end(401, Absent)
               /\ admissions' = Restrict(admissions, DOMAIN admissions \cap DOMAIN sessions')
          ELSE /\ Commit(updateLastActivity(valid.st, loop.id, now))
               /\ dispatch_end(200, Absent)
               /\ admissions' = [admissions EXCEPT ![loop.id] = @ + 1]
    /\ UNCHANGED <<manager, procVars, now, nextId, evicted, ret, mwSessions, setLog>>

\* POST /subscribe passes dispatch (a path of URI_EXCEPTIONS) and is handed
\* to worker w
subscribe_begin(w) ==
    /\ loop = LoopIdle
    /\ threads[w] = Idle
    /\ nextId + Cardinality({v \in Threads : threads[v].pc = "createSession"}) <= MaxIds
    /\ threads' = [threads EXCEPT ![w] = [Idle EXCEPT !.pc = "createSession"]]
    /\ UNCHANGED <<manager, loop, admissions, session, now, nextId, storeVars, mwSessions, resp, setLog>>

\* session_manager.createSession(...) on worker w, and the response
subscribe_createSession(w, client) ==
    /\ threads[w].pc = "createSession"
    /\ LET session_id == UuidPool[nextId]
           user_agent == IF client[2] = Absent THEN "unknown" ELSE client[2]
       IN /\ Commit(createSession(Store(sessions, closeCount), session_id,
                                  client[1], user_agent, now))
          /\ resp' = [NoResp EXCEPT !.app = "A", !.path = <<"subscribe">>,
                                    !.session = session_id, !.status = 200,
                                    !.ran = TRUE,
                                    !.body = [session_id |-> session_id]]
    /\ nextId' = nextId + 1
    /\ threads' = [threads EXCEPT ![w] = Idle]
    /\ admissions' = [x \in DOMAIN admissions \cup {UuidPool[nextId]} |->
                       IF x = UuidPool[nextId] THEN 0 ELSE admissions[x]]
    /\ UNCHANGED <<manager, loop, session, now, evicted, ret, mwSessions, setLog>>

ScanNext ==
    \/ Tick
    \/ \E w \in Threads : subscribe_begin(w)
    \/ \E w \in Threads, client \in HttpClients : subscribe_createSession(w, client)
    \/ \E sid \in issued : dispatch_begin(sid)
    \/ cleanup_next
    \/ cleanup_exists
    \/ cleanup_del
    \/ dispatch_validate
    \/ \E w \in Threads, sid \in issued : loop = LoopIdle /\ Unsubscribe_begin(w, sid)
    \/ \E w \in Threads : deleteSession_exists(w)
    \/ \E w \in Threads : deleteSession_close(w)
    \/ \E w \in Threads : deleteSession_del(w)

SpecScan == StoreInit /\ [][ScanNext]_vars

\* ------------------------------------------------------------------ claims
\* C3: right after createSession returns id (no time elapsed, no other call),
\* isSessionValid(id) is true and getSession(id) is the new record, with
\* request_count 0.
C3_CreateThenValid ==
    ret.op = "create" =>
        LET st == Store(sessions, closeCount)
            rec == getSession(st, ret.val)
        IN /\ isSessionValid(st, ret.val, now).ok
           /\ isSessionValid(st, ret.val, now).st = st
           /\ rec # NotFound
           /\ rec.session_id = ret.val
           /\ rec.request_count = 0
           /\ rec.created_at = now

\* a session created after the clock has passed the timeout, next to another
C3_Witness ==
    /\ ret.op = "create"
    /\ now > SessionTimeout
    /\ Cardinality(DOMAIN sessions) = 2

\* C4: an id createSession never returned, or one that was deleted, is
\* invalid and not found, in every reachable state (so never again).
C4_AbsentIdsInvisible ==
    \A id \in Ids \cup {Forged} :
        (id \notin issued \/ id \in deleted) =>
            LET st == Store(sessions, closeCount)
            IN /\ ~isSessionValid(st, id, now).ok
               /\ getSession(st, id) = NotFound

\* a lookup of a deleted id, after a later session was created
C4_Witness ==
    /\ ret.op = "get"
    /\ ret.id \in deleted
    /\ DOMAIN sessions # {}

\* C5: isSessionValid on a record idle for longer than the timeout answers
\* False and removes the record in that call; from then on isSessionValid of
\* that id is never True again and getSession reports not found.
C5_SelfEviction ==
    [][LET id == ret'.id
       IN /\ (ret'.op = "isValid" /\ id \in DOMAIN sessions
                  /\ Expired(sessions[id], now))
              => (ret'.val = FALSE /\ id \notin DOMAIN sessions')
          /\ (ret'.op = "isValid" /\ id \in evicted) => ret'.val = FALSE
          /\ (ret'.op = "get" /\ id \in evicted) => ret'.val = NotFound
          /\ evicted' \cap DOMAIN sessions' = {}]_vars

\* getSession of an id that isSessionValid has evicted
C5_Witness ==
    /\ ret.op = "get"
    /\ ret.id \in evicted
    /\ closeCount[ret.id] = 1

\* C1: a request on a path outside the allow-list that carries no session id
\* (no session_id cookie, no X-Session-Id header, or empty ones) is answered
\* 401 and no route handler runs for it.
C1_NoIdRejected ==
    LET offList == \/ resp.app = "A" /\ resp.path \notin URI_EXCEPTIONS
                   \/ resp.app = "B" /\ _requires_authentication(resp.path)
    IN (offList /\ Falsy(SuppliedId(resp.cookie, resp.sid)))
           => (resp.status = 401 /\ ~resp.ran)

\* C2: a request on a path outside the allow-list that carries a session id
\* naming no live, non-expired record (never created, deleted, or idle past
\* the timeout) is answered 401 and no route handler runs for it; a handler
\* runs only when the id supplied named a live record on arrival.
C2_InvalidIdRejected ==
    LET offList == \/ resp.app = "A" /\ resp.path \notin URI_EXCEPTIONS
                   \/ resp.app = "B" /\ _requires_authentication(resp.path)
    IN (offList /\ ~Falsy(SuppliedId(resp.cookie, resp.sid)))
           => /\ ~resp.live => (resp.status = 401 /\ ~resp.ran)
              /\ resp.ran => resp.live

\* C6: once an unsubscribe request of the owner of session S has been
\* answered with success, S is not in the store.
C6_UnsubscribeRemoves ==
    /\ (resp.app = "A" /\ resp.path = <<"unsubscribe">> /\ resp.ran
            /\ resp.status = 200)
           => resp.session \notin DOMAIN sessions
    /\ (resp.app = "B" /\ Len(resp.path) = 2 /\ resp.ran /\ resp.status = 200)
           => (resp.path[1] = "unsubscribe" => resp.session \notin DOMAIN mwSessions)

C8_ExactlyLastMapping ==
    (resp.app = "A" /\ resp.path = <<"get-headers">> /\ resp.status = 200
        /\ resp.session \in DOMAIN setLog)
       => LET items == setLog[resp.session]
          IN resp.body = [n \in {items[i][1] : i \in 1..Len(items)} |->
                             items[CHOOSE i \in 1..Len(items) : items[i][1] = n][2]]

\* C8 as amended: get-headers answers with the mapping of the session's last
\* set-headers call in which, of the names that differ only in letter case,
\* the last one written stands alone, with its spelling and its value; no
\* header of an earlier call or of session creation is in it.
C8_LastMappingCaseFolded ==
    (resp.app = "A" /\ resp.path = <<"get-headers">> /\ resp.status = 200
        /\ resp.session \in DOMAIN setLog)
       => LET items == setLog[resp.session]
              last == {i \in 1..Len(items) :
                         \A j \in (i + 1)..Len(items) :
                             lower(items[j][1]) # lower(items[i][1])}
          IN resp.body = [n \in {items[i][1] : i \in last} |->
                             items[CHOOSE i \in last : items[i][1] = n][2]]

\* a session whose headers were set twice, last to two names that differ only
\* in case, was answered with the later of the two alone
C8_Witness ==
    /\ resp.app = "A" /\ resp.path = <<"get-headers">> /\ resp.status = 200
    /\ resp.session \in DOMAIN setLog
    /\ setLog[resp.session] = << <<h_XTrace, "1">>, <<h_xtrace, "2">> >>
    /\ resp.body = (h_xtrace :> "2")
    /\ sessions[resp.session].request_count = 3

\* C9: when forward or download has merged the cookies of its body into the
\* session's jar, the jar it makes the call with holds, for each cookie of
\* the body, exactly one cookie with that (name, domain, path), with the
\* body's value; every cookie that was in the jar under another key is still
\* there unchanged, and nothing else is.
C9_MergeOverwritesByKey ==
    (resp.app = "A" /\ resp.path \in {<<"forward">>, <<"dowwnload">>} /\ resp.ran)
       => LET sent == PayloadCookies(resp.payload.cookies)
              kept == {x \in resp.before.cookies : \A c \in sent : ~SameKey(x, c)}
          IN /\ \A c \in sent : {x \in resp.call.jar : SameKey(x, c)} = {c}
             /\ resp.call.jar = kept \cup sent

\* the jar held a cookie under the key of a cookie of the body, with another
\* value, and a cookie under another key
C9_Witness ==
    /\ resp.app = "A" /\ resp.path = <<"forward">> /\ resp.ran
    /\ \E c \in PayloadCookies(resp.payload.cookies) :
           /\ \E x \in resp.before.cookies : SameKey(x, c) /\ x.value # c.value
           /\ \E y \in resp.before.cookies : ~SameKey(y, c)
           /\ Cardinality(resp.call.jar) = 2

\* C10: a forward or download request whose method is, in upper case, none
\* of the seven allowed, or whose url begins with neither http:// nor
\* https://, makes no outbound call and runs no handler; if the gateway let it
\* in it is answered 422 (else 401) and the session's headers and jar are as
\* they were.  A request that makes a call makes it with the method in upper
\* case.
C10_InvalidPayloadRejected ==
    (resp.app = "A" /\ resp.path \in {<<"forward">>, <<"dowwnload">>})
       => LET body == resp.payload
              http == startswith(body.url, <<"h","t","t","p",":","/","/">>)
              https == startswith(body.url, <<"h","t","t","p","s",":","/","/">>)
              bad == (upper(body.method) \notin allowed_methods) \/ ~(http \/ https)
              admitted == resp.session # Absent
          IN /\ bad => (resp.call = NoCall)
             /\ bad => ~resp.ran
             /\ bad => (resp.status = IF admitted THEN 422 ELSE 401)
             /\ (bad /\ admitted) => (resp.session \in DOMAIN sessions)
             /\ (bad /\ admitted) => (sessions[resp.session].instance = resp.before)
             /\ resp.ran => (resp.call.method = upper(body.method))
             /\ resp.ran => (resp.call.method \in allowed_methods)
             /\ resp.ran => (resp.call.url = body.url)

\* a body with method TRACE that carried a header and a cookie was refused by
\* a session that had a cookie under that key with another value
C10_Witness ==
    /\ resp.app = "A" /\ resp.path = <<"forward">> /\ resp.status = 422
    /\ resp.payload.method = m_TRACE
    /\ \E c \in PayloadCookies(resp.payload.cookies) :
           \E x \in resp.before.cookies : SameKey(x, c) /\ x.value # c.value

\* C11: a forward that timed out answers 408 and the session's headers and
\* jar are, after the request, what they were before it, whatever the body.
C11_TimeoutLeavesSessionUnmodified ==
    (resp.app = "A" /\ resp.path = <<"forward">> /\ resp.ran
        /\ resp.outcome.kind \in {"Timeout", "ConnectTimeout"})
       => /\ resp.status = 408
          /\ sessions[resp.session].instance = resp.before

\* C12: a request whose body fails validation leaves the session store as it
\* was: no last_activity, no request_count changes and no record is removed.
C12_InvalidBodyLeavesStore ==
    [][(resp'.app = "A" /\ resp'.status = 422) => sessions' = sessions]_vars

\* C13: when session.request raises in forward, the response is a JSON error
\* whose status goes by the kind of the exception: 408 for a timeout, a
\* connect timeout among them, 502 for a connection error, 500 for an HTTP
\* error, and 500 with the exception's class name as error_type for any
\* other.
C13_FailuresMappedByKind ==
    (resp.path = <<"forward">> /\ resp.outcome.kind \in ExceptionKinds)
       => LET kind == resp.outcome.kind
          IN /\ resp.ran
             /\ "error_type" \in DOMAIN resp.content
             /\ kind \in {"Timeout", "ConnectTimeout"} => resp.status = 408
             /\ kind = "ConnectionError" => resp.status = 502
             /\ kind = "HTTPError" => resp.status = 500
             /\ kind = "TooManyRedirects" => resp.status = 500
             /\ kind = "TooManyRedirects" => resp.content.error_type = kind

\* a forward whose call raised ConnectTimeout, which is a ConnectionError
\* too, was answered 408
C13_Witness ==
    /\ resp.app = "A" /\ resp.path = <<"forward">>
    /\ resp.outcome.kind = "ConnectTimeout"
    /\ "ConnectionError" \in mro[resp.outcome.kind]
    /\ resp.status = 408

\* C14: the error response forward or download returns when session.request
\* raised carries the url and the method of the body, and the timeout of the
\* body too when the exception was a timeout.
C14_ErrorsCarryUrlAndMethod ==
    (resp.app = "A" /\ resp.path \in {<<"forward">>, <<"dowwnload">>}
        /\ resp.outcome.kind \in ExceptionKinds)
       => /\ {"url", "method"} \subseteq DOMAIN resp.content
          /\ resp.content.url = resp.payload.url
          /\ resp.content.method = upper(resp.payload.method)
          /\ resp.status = 408 => "timeout" \in DOMAIN resp.content
          /\ resp.status = 408 => resp.content.timeout = resp.payload.timeout

\* C15: every error response (401 of the gateway, 408, 502 and 500 of
\* forward and download) has an error message and an error-kind tag.
C15_ErrorsCarryMessageAndKind ==
    (resp.app = "A" /\ resp.status \in {401, 408, 500, 502})
       => /\ DOMAIN resp.content \cap {"error", "message"} # {}
          /\ "error_type" \in DOMAIN resp.content

\* C16: the requests.Session of a record is closed once, when the record is
\* removed: never twice, once for a record that is gone, and not at all for
\* a record in the store that no deleteSession is about to remove.
C16_ClosedExactlyOnce ==
    \A id \in issued :
        /\ closeCount[id] <= 1
        /\ id \notin DOMAIN sessions => closeCount[id] = 1
        /\ (id \in DOMAIN sessions
              /\ \A w \in Threads : ~(threads[w].pc = "del" /\ threads[w].id = id))
           => closeCount[id] = 0

\* C17: a set-headers or forward served under one session leaves what every
\* other live session's get-headers and get-cookies return, and what its
\* calls are made with, as it was.  In B these are, for every session, the
\* headers and the jar of the module's one requests.Session.
C17_SessionsIsolated ==
    [][(/\ resp'.app = "B"
        /\ resp'.path \in {<<"set-headers">>, <<"forward">>}
        /\ resp'.ran
        /\ \E other \in DOMAIN mwSessions :
              other # resp'.session /\ Live(mwSessions, other, now))
       => session' = session]_vars

\* C18: only a subscribe request adds a record to the store, and it adds one.
C18_OnlySubscribeCreates ==
    [][/\ resp'.path # <<"subscribe">> => DOMAIN mwSessions' \subseteq DOMAIN mwSessions
       /\ (resp'.path = <<"subscribe">> /\ resp'.status = 201 /\ resp' # resp)
             => Cardinality(DOMAIN mwSessions' \ DOMAIN mwSessions) = 1]_vars

\* C19: when forward or download got a response, every cookie the response
\* set is in the session's jar; get-cookies returns the jar as it is, and a
\* later call is made with every cookie of the jar that its body does not
\* replace.
C19_ResponseCookiesStored ==
    [][LET calls == resp'.app = "A" /\ resp'.ran
                       /\ resp'.path \in {<<"forward">>, <<"dowwnload">>}
       IN /\ (calls /\ resp'.outcome.kind = "response")
                => resp'.outcome.cookies \subseteq sessions'[resp'.session].instance.cookies
          /\ (resp'.app = "A" /\ resp'.ran /\ resp'.path = <<"get-cookies">>)
                => resp'.body = sessions[resp'.session].instance.cookies
          /\ calls
                => \A c \in sessions[resp'.session].instance.cookies :
                      \/ c \in resp'.call.jar
                      \/ \E p \in PayloadCookies(resp'.payload.cookies) : SameKey(c, p)]_vars

\* a forward whose body gave no cookies was made with the cookie sid=abc,
\* which only a response sets
C19_Witness ==
    /\ resp.app = "A" /\ resp.path = <<"forward">> /\ resp.ran
    /\ resp.payload.cookies = <<>>
    /\ \E c \in resp.call.jar : c.name = "sid" /\ c.value = "abc"

\* C20: after a forward the session's headers are what they were before it;
\* the call was made with the headers of the body, each under the name and
\* with the value the body gives it last, and with every header of the
\* session whose name, letter case aside, the body does not give.
C20_ForwardKeepsStoredHeaders ==
    (resp.app = "A" /\ resp.path = <<"forward">> /\ resp.ran)
       => LET extra == resp.payload.headers
              stored == resp.before.headers
              last(i) == \A j \in DOMAIN extra :
                             j > i => lower(extra[j][1]) # lower(extra[i][1])
              given == {lower(extra[i][1]) : i \in DOMAIN extra}
          IN /\ sessions[resp.session].instance.headers = stored
             /\ \A i \in DOMAIN extra :
                   last(i) => /\ extra[i][1] \in DOMAIN resp.call.headers
                              /\ resp.call.headers[extra[i][1]] = extra[i][2]
             /\ \A k \in DOMAIN stored \ given :
                   /\ stored[k][1] \in DOMAIN resp.call.headers
                   /\ resp.call.headers[stored[k][1]] = stored[k][2]
             /\ Cardinality(DOMAIN resp.call.headers)
                   = Cardinality(DOMAIN stored \cup given)

\* the body gave accept, the session held Accept with another value
C20_Witness ==
    /\ resp.app = "A" /\ resp.path = <<"forward">> /\ resp.ran
    /\ \E i \in DOMAIN resp.payload.headers :
          LET name == resp.payload.headers[i][1]
          IN /\ lower(name) \in DOMAIN resp.before.headers
             /\ resp.before.headers[lower(name)][1] # name
             /\ resp.before.headers[lower(name)][2] # resp.payload.headers[i][2]
             /\ resp.call.headers[name] = resp.payload.headers[i][2]

\* ------------------------------------------------------ claims C21 .. C30
\* C21: a health check is answered 200 when its outbound probe got a
\* response of status 200, and 503 in every other case (the probe timed out,
\* could not connect, got another status, or raised anything else); no other
\* status is ever sent.
C21_HealthAnswers200Or503 ==
    (resp.path \in {<<"health-check">>, <<"health">>} /\ resp.outcome.kind # Absent)
        => resp.status = IF /\ resp.outcome.kind = "response"
                            /\ resp.outcome.status_code = 200
                         THEN 200 ELSE 503

\* C22: an exception a route handler raises is caught by the gateway and
\* answered with a 500 that carries the session-identifying headers of the
\* request's session.
C22_HandlerExceptionsGive500WithSession ==
    resp.raised # Absent
        => /\ resp.status = 500
           /\ \E h \in DOMAIN resp.headers : resp.headers[h] = resp.session

\* C23: a request on a path of the public allow-list goes through the
\* gateway with no lookup, validation, creation, touch or eviction: the
\* session store is the same after the request as before, whatever id the
\* request carried.  (A's /subscribe is left out: there the route itself
\* creates the session.)
C23_PublicPathLeavesStore ==
    [][(/\ (resp' # resp \/ nextId' # nextId)
        /\ \/ resp'.app = "B" /\ ~_requires_authentication(resp'.path)
           \/ resp'.app = "A" /\ resp'.path \in URI_EXCEPTIONS \ {<<"subscribe">>})
       => (sessions' = sessions /\ mwSessions' = mwSessions)]_vars

\* C24: a set-headers request of a live session whose body holds a value
\* that is not a string is answered 400, and the session's stored headers
\* are what they were.
C24_NonStringAnswered400 ==
    (/\ resp.app = "A"
     /\ resp.path = <<"set-headers">>
     /\ resp.session # Absent
     /\ \E i \in DOMAIN resp.payload : resp.payload[i][2] \in NonStrings)
        => /\ resp.status = 400
           /\ resp.session \in DOMAIN sessions
                 => sessions[resp.session].instance.headers = resp.before.headers

\* C25: the touch of an admitted request sets last_activity to the time of
\* the request and adds exactly one to request_count; a touch never makes a
\* record; so the request_count of every live session is the number of
\* requests bearing its id that the gateway has admitted since it was made.
C25_CountEqualsAdmitted ==
    [][\A id \in DOMAIN sessions' :
          /\ id \in DOMAIN admissions'
          /\ sessions'[id].request_count = admissions'[id]
          /\ id \notin DOMAIN sessions => id \notin issued
          /\ (id \in DOMAIN sessions /\ admissions'[id] # admissions[id])
                => /\ sessions'[id].last_activity = now'
                   /\ sessions'[id].request_count = sessions[id].request_count + 1]_vars

\* a live session with two admitted requests answers a health check that
\* carried its id and went round the gateway's validation
C25_Witness ==
    /\ resp.app = "A"
    /\ resp.path = <<"health-check">>
    /\ resp.sid \in DOMAIN sessions
    /\ sessions[resp.sid].request_count >= 2
    /\ admissions[resp.sid] = sessions[resp.sid].request_count

\* C26: while a record lives its last_activity and request_count never go
\* down, and its session_id, client_ip, user_agent and created_at stay what
\* createSession made them.
C26_RecordsMonotonic ==
    [][\A id \in DOMAIN sessions \cap DOMAIN sessions' :
          /\ sessions'[id].last_activity >= sessions[id].last_activity
          /\ sessions'[id].request_count >= sessions[id].request_count
          /\ sessions'[id].session_id = id
          /\ sessions'[id].session_id = sessions[id].session_id
          /\ sessions'[id].client_ip = sessions[id].client_ip
          /\ sessions'[id].user_agent = sessions[id].user_agent
          /\ sessions'[id].created_at = sessions[id].created_at]_vars

\* a record touched at a later time than it was created at
C26_Witness ==
    \E id \in DOMAIN sessions :
        /\ sessions[id].request_count > 0
        /\ sessions[id].last_activity > sessions[id].created_at

\* C27: deleteSession is idempotent: called with an id that has no record it
\* changes nothing and returns; a second call after a first changes nothing
\* more; no record but the one named is changed.  The same holds of
\* delete_session on a session map.
C27_DeleteIdempotent ==
    [][(ret'.op = "delete" /\ (ret' # ret \/ sessions' # sessions))
        => LET id == ret'.id
               before == Store(sessions, closeCount)
               after == Store(sessions', closeCount')
           IN /\ id \notin DOMAIN sessions'
              /\ id \notin DOMAIN sessions => after = before
              /\ deleteSession(after, id) = after
              /\ \A other \in DOMAIN sessions \ {id} :
                    /\ other \in DOMAIN sessions'
                    /\ sessions'[other] = sessions[other]
              /\ \A other \in DOMAIN closeCount \ {id} :
                    closeCount'[other] = closeCount[other]
              /\ delete_session(delete_session(sessions, id), id)
                    = delete_session(sessions, id)
              /\ id \notin DOMAIN sessions => delete_session(sessions, id) = sessions
              /\ \A other \in DOMAIN sessions \ {id} :
                    delete_session(sessions, id)[other] = sessions[other]]_vars

\* deleteSession has returned for an id that was issued and has no record,
\* and another record lives
C27_Witness ==
    /\ ret.op = "delete"
    /\ ret.id \in issued \ DOMAIN sessions
    /\ closeCount[ret.id] = 1
    /\ DOMAIN sessions # {}

\* C28 as stated: cleanupExpiredSessions removes exactly the records whose
\* now - last_activity is over the timeout, and returns the number it removed.
C28_SweepReturnsCount ==
    [][(ret'.op = "sweep" /\ (ret' # ret \/ sessions' # sessions))
        => /\ DOMAIN sessions' = {id \in DOMAIN sessions : ~Expired(sessions[id], now)}
           /\ ret'.val # Absent
           /\ ret'.val = Cardinality(DOMAIN sessions \ DOMAIN sessions')]_vars

\* C28, amended: cleanupExpiredSessions removes exactly the records whose
\* now - last_activity is over the timeout, leaves every other record as it
\* was, closes each removed record's requests.Session once, and returns None.
C28_SweepRemovesExpired ==
    [][(ret'.op = "sweep" /\ (ret' # ret \/ sessions' # sessions))
        => /\ DOMAIN sessions' = {id \in DOMAIN sessions : ~Expired(sessions[id], now)}
           /\ \A id \in DOMAIN sessions' : sessions'[id] = sessions[id]
           /\ \A id \in DOMAIN closeCount :
                 closeCount'[id] = IF id \in DOMAIN sessions \ DOMAIN sessions'
                                   THEN closeCount[id] + 1 ELSE closeCount[id]
           /\ ret'.val = Absent]_vars

\* a sweep has returned; it kept a record idle for exactly the timeout and
\* a record that was issued is gone
C28_Witness ==
    /\ ret.op = "sweep"
    /\ \E kept \in DOMAIN sessions : now - sessions[kept].last_activity = SessionTimeout
    /\ \E gone \in issued \ DOMAIN sessions : closeCount[gone] = 1

C30_IdleEventuallyRemoved ==
    \A id \in Ids :
        (id \in DOMAIN sessions /\ Expired(sessions[id], now))
            ~> (id \notin DOMAIN sessions)
\* ------------------------------------------------------ claims C31 .. C38
\* C33: a forward or download whose call timed out is answered 408 and
\* nothing else is given up: the session's record is in the store and valid,
\* its requests.Session has not been closed and has the headers it had, and
\* the next forward or download on the session, sent while the session is
\* within its idle time, is run.
C33_TimeoutCancelsOnlyCall ==
    [][/\ (/\ resp'.app = "A" /\ resp'.ran
           /\ resp'.path \in {<<"forward">>, <<"dowwnload">>}
           /\ resp'.status = 408
           /\ (resp' # resp \/ sessions' # sessions))
          => /\ resp'.session \in DOMAIN sessions'
             /\ isSessionValid(Store(sessions', closeCount'), resp'.session, now').ok
             /\ closeCount'[resp'.session] = 0
             /\ sessions'[resp'.session].instance.headers = resp'.before.headers
       /\ (/\ resp.app = "A" /\ resp.ran
           /\ resp.path \in {<<"forward">>, <<"dowwnload">>}
           /\ resp.status = 408
           /\ Live(sessions, resp.session, now)
           /\ (resp' # resp \/ sessions' # sessions)
           /\ resp'.path \in {<<"forward">>, <<"dowwnload">>}
           /\ resp'.sid = resp.session
           /\ HTTPRequestPayload(resp'.payload).valid)
          => /\ resp'.ran
             /\ resp'.session = resp.session
             /\ resp'.outcome.kind # Absent]_vars

\* a call of the second request of a session has timed out
C33_Witness ==
    /\ resp.app = "A" /\ resp.ran
    /\ resp.status = 408
    /\ resp.session \in DOMAIN sessions
    /\ sessions[resp.session].request_count >= 2
    /\ closeCount[resp.session] = 0

\* C34: forward and download write every cookie of the body into the
\* session's jar before the call: the call is made with the cookies the jar
\* had and the cookies of the body together, and the cookies of the body stay
\* in the session's jar for later calls (no step takes a cookie's key out of
\* the jar of a live session).
C34_BodyCookiesJoinTheJar ==
    [][/\ (/\ resp'.app = "A" /\ resp'.ran
           /\ resp'.path \in {<<"forward">>, <<"dowwnload">>}
           /\ (resp' # resp \/ sessions' # sessions))
          => LET sent == PayloadCookies(resp'.payload.cookies)
                 jar == sessions'[resp'.session].instance.cookies
             IN /\ sent \subseteq resp'.call.jar
                /\ \A x \in resp'.before.cookies :
                      \E y \in resp'.call.jar : SameKey(x, y)
                /\ \A c \in sent :
                      \E x \in jar : /\ SameKey(x, c)
                                     /\ x = c \/ x \in resp'.outcome.cookies
       /\ \A id \in DOMAIN sessions \cap DOMAIN sessions' :
             \A x \in sessions[id].instance.cookies :
                \E y \in sessions'[id].instance.cookies : SameKey(x, y)]_vars

\* a call made with a cookie the jar had and a cookie of the body under
\* another key
C34_Witness ==
    /\ resp.app = "A" /\ resp.ran
    /\ resp.path \in {<<"forward">>, <<"dowwnload">>}
    /\ \E c \in PayloadCookies(resp.payload.cookies) :
       \E x \in resp.before.cookies :
          /\ ~SameKey(x, c)
          /\ {x, c} \subseteq resp.call.jar
          /\ {x, c} \subseteq sessions[resp.session].instance.cookies

\* C35: with no sweep at all, a session idle past the timeout is not
\* admitted, not touched and not made valid again by any request, on a public
\* path or not: its record stays as it is or goes.
C35_ExpiredNeverRevived ==
    [][/\ \A id \in DOMAIN mwSessions :
             Expired(mwSessions[id], now)
                => /\ id \in DOMAIN mwSessions' => mwSessions'[id] = mwSessions[id]
                   /\ ~(resp' # resp /\ resp'.app = "B" /\ resp'.session = id
                           /\ resp'.ran)
       /\ \A id \in DOMAIN sessions :
             Expired(sessions[id], now)
                => /\ id \in DOMAIN sessions' => sessions'[id] = sessions[id]
                   /\ ~(resp' # resp /\ resp'.app = "A" /\ resp'.session = id
                           /\ resp'.ran)]_vars

\* C38: a client never chooses its session id: when a request to B carries
\* an id that is not in the store, the session it is served under has a new
\* id, which is not the id supplied and was in no store before, and the id
\* supplied is still not in the store.
C38_ClientNeverChoosesId ==
    [][LET supplied == SuppliedId(resp'.cookie, resp'.sid)
       IN (/\ resp'.app = "B"
           /\ (resp' # resp \/ nextId' # nextId)
           /\ ~Falsy(supplied)
           /\ supplied \notin DOMAIN mwSessions)
             => /\ resp'.session # supplied
                /\ resp'.session = UuidPool[nextId]
                /\ resp'.session \notin DOMAIN mwSessions
                /\ resp'.session \in DOMAIN mwSessions'
                /\ supplied \notin DOMAIN mwSessions']_vars

\* a request that carried an id once issued and since swept is served under
\* another id
C38_Witness ==
    /\ resp.app = "B"
    /\ SuppliedId(resp.cookie, resp.sid) \in issued \ DOMAIN mwSessions
    /\ resp.session \in DOMAIN mwSessions
    /\ resp.session # SuppliedId(resp.cookie, resp.sid)

\* C37: every construction of SessionManager returns the one instance, over
\* the one map, and the timeout is the one given to the first construction:
\* a later construction, with another timeout or with none, changes neither,
\* and isSessionValid and cleanupExpiredSessions go by that timeout.
C37_OneManagerFirstTimeout ==
    [][/\ (ret'.op = "new" /\ manager._instance = Absent)
          => /\ manager'._instance # Absent
             /\ manager'._instance = ret'.val.instance
             /\ manager'._session_timeout = ret'.val.session_timeout
       /\ (ret'.op = "new" /\ manager._instance # Absent)
          => /\ ret'.val.instance = manager._instance
             /\ sessions' = sessions /\ closeCount' = closeCount
       /\ manager._instance # Absent => manager' = manager
       /\ (ret'.op = "isValid" /\ ret'.id \in DOMAIN sessions)
          => /\ ret'.val = (now - sessions[ret'.id].last_activity
                               <= manager._session_timeout)
             /\ ret'.val = (ret'.id \in DOMAIN sessions')
       /\ ret'.op = "sweep"
          => DOMAIN sessions' =
                {id \in DOMAIN sessions :
                    now - sessions[id].last_activity <= manager._session_timeout}]_vars

\* a construction with another timeout than the first one's, with a session
\* in the store
C37_Witness ==
    /\ ret.op = "new"
    /\ ret.val.session_timeout # manager._session_timeout
    /\ ret.val.instance = manager._instance
    /\ sessions # <<>>

\* C31: once the gateway has validated and touched a session for a request,
\* the handler of that request finds the session's record, whatever other
\* requests do in between: its lookup raises nothing and the request is not
\* answered 500 for it.
C31_ValidatedSessionFound ==
    [][\A w \in Threads :
          (threads[w].pc = "getSessionInstance"
              /\ threads'[w].pc # "getSessionInstance")
             => /\ threads[w].id \in DOMAIN sessions
                /\ ~(resp'.session = threads[w].id /\ resp'.raised = "ValueError")]_vars

\* C36: while a forward or download call on a session is in flight, the
\* session's record is in the store and its requests.Session has not been
\* closed.
C36_InFlightSessionKept ==
    \A w \in Threads :
       threads[w].pc = "request"
          => /\ threads[w].id \in DOMAIN sessions
             /\ closeCount[threads[w].id] = 0

\* C32: a sweep that scans the map while a handler thread creates or deletes
\* a session runs to its end: nothing is raised in it, and the request whose
\* gateway ran the sweep is not answered 500.
C32_SweepSafeBesideHandlers ==
    [][(loop.pc # "idle" /\ loop'.pc = "idle")
          => /\ resp'.raised = Absent
             /\ resp'.status # 500]_vars
====
